---- MODULE Spec2Model ----
(***************************************************************************)
(* A model of the FeatureFlagsHQ Python SDK (src/src/featureflagshq):      *)
(* the circuit breaker, the flag cache and its background refresh, input   *)
(* validation and the get path of FeatureFlagsHQSDK.                        *)
(*                                                                         *)
(* The client is one object shared by caller threads and two background    *)
(* workers.  Each part of it is given its own specification over its own   *)
(* group of variables; the other groups stay at their initial value:       *)
(*   SpecBreaker   the circuit breaker record and the threads using it,    *)
(*                 statement by statement (the record has no lock)         *)
(*   SpecCache     the flag cache, _fetch_flags, the polling worker and a  *)
(*                 caller thread that refreshes and reads the cache; the   *)
(*                 clock stands still and a breaker method is one step     *)
(*   Spec          get, _log_user_access and _update_timing_stats for      *)
(*                 caller threads whose arguments pass the validation      *)
(*   SpecValidate  one get, up to its rate-limit check, for arguments of   *)
(*                 every kind                                              *)
(***************************************************************************)
EXTENDS Integers, Sequences, FiniteSets, TLC

VARIABLES
    \* ---- circuit breaker (sdk.py 257-264, 515-551) ----
    circuit_breaker,   \* self._circuit_breaker: state, failure_count, last_failure_time
    now,               \* time.time(), in seconds
    cbpc,              \* per thread: where it is in check / call / report
    cbread,            \* per thread: failure_count as read by the += of _record_api_failure
    admitted,          \* per thread: breaker state under which its call in flight was admitted
    consecutive        \* history: failure reports completed since the last success report

cbVars == <<circuit_breaker, now, cbpc, cbread, admitted, consecutive>>
breakerOnly == <<cbpc, cbread, admitted, consecutive>>

VARIABLES
    \* ---- flag cache and its refresh (sdk.py 553-670, 1021-1090) ----
    feature_flags,     \* self.feature_flags: a dict, kept in insertion order
    environment_info,  \* self.environment_info: the kind of object it holds
    spc,               \* per thread: where it is in poll / refresh / read
    new_flags,         \* per thread: what its _fetch_flags returned
    kept,              \* history: the cached flags the worker's last merge was not given
    raised,            \* per thread: the exception travelling up from _fetch_flags
    outcome,           \* per thread: how its last _fetch_flags ended
    iter,              \* the caller's dict iterator in get_user_flags
    user_flags,        \* the caller's result: what each flag it read was evaluated from
    read_result,       \* how the caller's last read ended
    seen               \* history: the cache states that existed during the caller's read

cacheVars == <<feature_flags, environment_info, spc, new_flags, kept, raised,
               outcome, iter, user_flags, read_result, seen>>
VARIABLES
    \* ---- get and its access log (sdk.py 446-469, 757-926) ----
    gpc,                 \* per caller thread: where it is in get
    gkey,                \* per caller thread: the flag key of its call
    gtime,               \* per caller thread: evaluation_time_ms of its call
    gin_try,             \* per caller thread: _log_user_access is called inside get's try
    gvalue,              \* per caller thread: what get returns after logging
    gresult,             \* per caller thread: how its last get ended
    stats_lock,          \* self._stats_lock: "free" or the thread that holds it
    user_access_logs,    \* self.user_access_logs: the number of queued entries
    total_user_accesses, \* self.stats['total_user_accesses']
    rate_limits,         \* self._rate_limits: user id -> (requests, time of the last one)
    enable_metrics,      \* self.enable_metrics
    calls                \* history: the number of get calls made

getVars == <<gpc, gkey, gtime, gin_try, gvalue, gresult, stats_lock, user_access_logs,
             total_user_accesses, rate_limits, enable_metrics, calls>>

VARIABLES
    \* ---- the arguments of one get and their validation (sdk.py 337-395, 838-859) ----
    v_user_id,           \* the user_id argument
    v_flag_key,          \* the flag_key argument
    v_result             \* "pending", then "raised" or "accepted"

valVars == <<v_user_id, v_flag_key, v_result>>

VARIABLES
    \* ---- the rate limiter over time (sdk.py 446-469) ----
    rl_allowed,          \* the answer of the last _rate_limit_check: "allowed", "denied"
    window_start,        \* history: when the user's 60 s window began
    window_calls,        \* history: the calls made in that window
    rl_requests          \* history: the calls of _rate_limit_check followed so far

rateVars == <<rl_allowed, window_start, window_calls, rl_requests>>

VARIABLES
    \* ---- the telemetry queue and its upload (sdk.py 680-733, 801-810, 1121-1133) ----
    log_entries,         \* the entries in self.user_access_logs, oldest first
    offline_mode,        \* self.offline_mode
    logged,              \* history: the entries _log_user_access has made so far
    upc,                 \* where each thread is in _upload_user_logs
    logs_batch,          \* logs_batch of each thread
    drained,             \* history: what each thread's current attempt took from the queue
    attempt,             \* history: how each thread's last attempt ended
    uploaded,            \* history: the entries sent in a successful upload
    flush_pending,       \* history: the queue when flush_logs was called
    flush_result         \* what the last flush_logs returned

uploadVars == <<log_entries, offline_mode, logged, upc, logs_batch, drained, attempt,
                uploaded, flush_pending, flush_result>>

VARIABLES
    \* ---- the change callback of the polling worker (sdk.py 644-670) ----
    old_flags,           \* old_flags of _polling_worker
    notified             \* the calls of on_flag_change made in the last iteration

notifyVars == <<old_flags, notified>>

VARIABLES
    \* ---- one evaluation of a flag (models.py 184-245) ----
    e_flag,              \* the FeatureFlagsHQFlag that is evaluated
    e_segments,          \* the segments argument of evaluate_for_user
    e_user_percentage,   \* int(sha256(name_user_version)[:8], 16) % 100 for this flag and user
    e_result,            \* what evaluate_for_user returned: the value and the context
    e_previous           \* what the call before that one returned

evalVars == <<e_flag, e_segments, e_user_percentage, e_result, e_previous>>

VARIABLES
    \* ---- the background workers and shutdown (sdk.py 620-678, 1162-1196) ----
    stop_event,          \* self._stop_event is set
    started,             \* per worker: _start_background_tasks started its thread
    wpc,                 \* per worker: where its loop is
    w_raised,            \* per worker: the last exception an iteration of it raised
    iterations,          \* per worker: the iterations it has begun
    sdpc,                \* where shutdown is
    join_index,          \* shutdown: the position in threads_to_join
    join_waited,         \* shutdown: the seconds the current join has waited
    total_waited         \* history: the seconds shutdown has waited in its joins

workerVars == <<stop_event, started, wpc, w_raised, iterations, sdpc, join_index,
                join_waited, total_waited>>

VARIABLES
    \* ---- the tracked users and flags of the statistics (sdk.py 471-485, 813-816) ----
    unique_users,          \* len(self.stats['unique_users'])
    unique_flags_accessed, \* len(self.stats['unique_flags_accessed'])
    st_gets                \* history: the get calls followed

statsVars == <<unique_users, unique_flags_accessed, st_gets>>

VARIABLES
    \* ---- the flags of one fetch response (sdk.py 583-595, models.py 158-182) ----
    response_data,         \* response_data['data']: the flag objects of the response
    flags,                 \* flags of _fetch_flags: the names that were parsed
    parse_raised,          \* the exception that left _fetch_flags while parsing
    parsed                 \* the response has been gone through

parseVars == <<response_data, flags, parse_raised, parsed>>

VARIABLES
    \* ---- _rate_limit_check called by several threads (sdk.py 446-469) ----
    rlpc,                \* per caller thread: where it is in _rate_limit_check
    rl_kept,             \* per caller thread: the dict its comprehension has built
    rl_count,            \* per caller thread: the request_count it has read
    rl_started,          \* history: the calls of _rate_limit_check made
    rl_granted           \* history: the calls that returned True

limitVars == <<rlpc, rl_kept, rl_count, rl_started, rl_granted>>

VARIABLES
    \* ---- the calls of shutdown and the destructor (sdk.py 1162-1212) ----
    sd_log,              \* history: what the current shutdown call has done, in order
    sd_raised,           \* history: the steps of the current call that raised
    sd_calls,            \* history: the shutdown calls begun
    sd_escaped,          \* the exception that left a call of shutdown or __del__
    deleted              \* __del__ has run

shutVars == <<sd_log, sd_raised, sd_calls, sd_escaped, deleted>>

VARIABLES
    \* ---- what an outbound call reports to the breaker (sdk.py 553-618, 708-733) ----
    oc_path,             \* the path of the last admitted call
    oc_response,         \* what that call met
    oc_reports           \* history: the _record_api_* calls made for it, in order

outcomeVars == <<oc_path, oc_response, oc_reports>>

\* The groups added last
lastVars == <<limitVars, shutVars, outcomeVars>>

\* The groups added after the evaluation
laterVars == <<workerVars, statsVars, parseVars, lastVars>>

\* The groups of the specifications further down
moreVars == <<rateVars, uploadVars, notifyVars, evalVars, laterVars>>

vars == <<cbVars, cacheVars, getVars, valVars, moreVars>>

(***************************************************************************)
(* Circuit breaker                                                         *)
(***************************************************************************)

\* self._circuit_breaker['failure_threshold'] and ['recovery_timeout']
failure_threshold == 5
recovery_timeout == 60

\* last_failure_time is None until a failure is recorded
None == -1

\* Bounds of the model
MaxTime == 124
MaxFailureCount == 7

\* time.time() advances between any two steps; the steps straddle the
\* recovery timeout (30 + 30 = 60 is not past it, 30 + 31 = 61 is)
TickSteps == {30, 31}

\* The threads that reach the breaker: _polling_worker through _fetch_flags,
\* _log_upload_worker through _upload_user_logs
BreakerThreads == {"polling", "log_upload"}

FreshBreaker == [state |-> "closed", failure_count |-> 0, last_failure_time |-> None]


\* The condition of _check_circuit_breaker under which an open breaker is released
RecoveryElapsed(cb, t) ==
    /\ cb.last_failure_time # None
    /\ (t - cb.last_failure_time) > recovery_timeout

\* The comparison that opens the breaker
ThresholdReached(count) == count >= failure_threshold

\* A faulty check, for comparison: it lets every call through
CircuitBreakerAlwaysAllows(cb, t) == TRUE

\* _check_circuit_breaker as one step: its answer, and the record it leaves
CircuitBreakerAllows(cb, t) == cb.state # "open" \/ RecoveryElapsed(cb, t)

AfterCheck(cb, t) ==
    IF cb.state = "open" /\ RecoveryElapsed(cb, t)
    THEN [cb EXCEPT !.state = "half-open"]
    ELSE cb

\* _record_api_success as one step
AfterSuccess(cb) ==
    IF cb.state = "half-open"
    THEN [cb EXCEPT !.state = "closed", !.failure_count = 0]
    ELSE cb

\* _record_api_failure as one step
AfterFailure(cb, t) ==
    LET c == [cb EXCEPT !.failure_count = @ + 1, !.last_failure_time = t]
    IN  IF ThresholdReached(c.failure_count) THEN [c EXCEPT !.state = "open"] ELSE c

\* The breaker after __init__: untouched, or, when _initial_fetch failed, with
\* that failure recorded
BreakerInit ==
    /\ circuit_breaker \in {FreshBreaker, AfterFailure(FreshBreaker, 0)}
    /\ now = 0
    /\ cbpc = [t \in BreakerThreads |-> "idle"]
    /\ cbread = [t \in BreakerThreads |-> 0]
    /\ admitted = [t \in BreakerThreads |-> "none"]
    /\ consecutive = circuit_breaker.failure_count

\* The threads of SpecBreaker at rest
BreakerIdle ==
    /\ cbpc = [t \in BreakerThreads |-> "idle"]
    /\ cbread = [t \in BreakerThreads |-> 0]
    /\ admitted = [t \in BreakerThreads |-> "none"]
    /\ consecutive = 0

Tick ==
    /\ \E d \in TickSteps :
          /\ now + d <= MaxTime
          /\ now' = now + d
    /\ UNCHANGED <<circuit_breaker, cbpc, cbread, admitted, consecutive>>

\* _check_circuit_breaker, up to its write: the state is read and, if open,
\* the timeout is evaluated.  Not open: return True.  Open and not elapsed:
\* return False (the caller makes no call).  Open and elapsed: go on to the write.
CheckCircuitBreaker(t) ==
    /\ cbpc[t] = "idle"
    /\ IF circuit_breaker.state = "open"
       THEN IF RecoveryElapsed(circuit_breaker, now)
            THEN /\ cbpc' = [cbpc EXCEPT ![t] = "set_half_open"]
                 /\ UNCHANGED admitted
            ELSE /\ cbpc' = [cbpc EXCEPT ![t] = "idle"]
                 /\ UNCHANGED admitted
       ELSE /\ cbpc' = [cbpc EXCEPT ![t] = "calling"]
            /\ admitted' = [admitted EXCEPT ![t] = circuit_breaker.state]
    /\ UNCHANGED <<circuit_breaker, now, cbread, consecutive>>

\* _check_circuit_breaker, its write: state = 'half-open'; return True
SetHalfOpen(t) ==
    /\ cbpc[t] = "set_half_open"
    /\ circuit_breaker' = [circuit_breaker EXCEPT !.state = "half-open"]
    /\ cbpc' = [cbpc EXCEPT ![t] = "calling"]
    /\ admitted' = [admitted EXCEPT ![t] = "half-open"]
    /\ UNCHANGED <<now, cbread, consecutive>>

\* The outbound call returns: the response is good, and _record_api_success follows
CallSucceeds(t) ==
    /\ cbpc[t] = "calling"
    /\ cbpc' = [cbpc EXCEPT ![t] = "record_success"]
    /\ UNCHANGED <<circuit_breaker, now, cbread, admitted, consecutive>>

\* The outbound call fails (401, timeout, connection error, HTTP error), and
\* _record_api_failure follows
CallFails(t) ==
    /\ cbpc[t] = "calling"
    /\ circuit_breaker.failure_count < MaxFailureCount
    /\ cbpc' = [cbpc EXCEPT ![t] = "failure_read"]
    /\ UNCHANGED <<circuit_breaker, now, cbread, admitted, consecutive>>

\* _record_api_success: if state == 'half-open': state = 'closed'
RecordApiSuccess(t) ==
    /\ cbpc[t] = "record_success"
    /\ IF circuit_breaker.state = "half-open"
       THEN /\ circuit_breaker' = [circuit_breaker EXCEPT !.state = "closed"]
            /\ cbpc' = [cbpc EXCEPT ![t] = "reset_count"]
            /\ UNCHANGED <<admitted, consecutive>>
       ELSE /\ cbpc' = [cbpc EXCEPT ![t] = "idle"]
            /\ admitted' = [admitted EXCEPT ![t] = "none"]
            /\ consecutive' = 0
            /\ UNCHANGED circuit_breaker
    /\ UNCHANGED <<now, cbread>>

\* _record_api_success, next statement: failure_count = 0
ResetFailureCount(t) ==
    /\ cbpc[t] = "reset_count"
    /\ circuit_breaker' = [circuit_breaker EXCEPT !.failure_count = 0]
    /\ cbpc' = [cbpc EXCEPT ![t] = "idle"]
    /\ admitted' = [admitted EXCEPT ![t] = "none"]
    /\ consecutive' = 0
    /\ UNCHANGED <<now, cbread>>

\* _record_api_failure: failure_count += 1 reads the count ...
FailureCountRead(t) ==
    /\ cbpc[t] = "failure_read"
    /\ cbread' = [cbread EXCEPT ![t] = circuit_breaker.failure_count]
    /\ cbpc' = [cbpc EXCEPT ![t] = "failure_write"]
    /\ UNCHANGED <<circuit_breaker, now, admitted, consecutive>>

\* ... and stores the count it read plus one
FailureCountWrite(t) ==
    /\ cbpc[t] = "failure_write"
    /\ circuit_breaker' = [circuit_breaker EXCEPT !.failure_count = cbread[t] + 1]
    /\ cbpc' = [cbpc EXCEPT ![t] = "failure_time"]
    /\ UNCHANGED <<now, cbread, admitted, consecutive>>

\* _record_api_failure: last_failure_time = time.time()
FailureTimeWrite(t) ==
    /\ cbpc[t] = "failure_time"
    /\ circuit_breaker' = [circuit_breaker EXCEPT !.last_failure_time = now]
    /\ cbpc' = [cbpc EXCEPT ![t] = "failure_trip"]
    /\ UNCHANGED <<now, cbread, admitted, consecutive>>

\* _record_api_failure: if failure_count >= failure_threshold: state = 'open'
FailureTrip(t) ==
    /\ cbpc[t] = "failure_trip"
    /\ IF ThresholdReached(circuit_breaker.failure_count)
       THEN circuit_breaker' = [circuit_breaker EXCEPT !.state = "open"]
       ELSE UNCHANGED circuit_breaker
    /\ cbpc' = [cbpc EXCEPT ![t] = "idle"]
    /\ admitted' = [admitted EXCEPT ![t] = "none"]
    /\ consecutive' = IF consecutive < MaxFailureCount THEN consecutive + 1 ELSE consecutive
    /\ UNCHANGED <<now, cbread>>

(***************************************************************************)
(* Flag cache, _fetch_flags, polling worker, refresh_flags and the reads   *)
(*                                                                         *)
(* In SpecCache a method of the breaker is one step; a with-block on       *)
(* _flags_lock is one step too, since every writer of the dict holds it.   *)
(***************************************************************************)

FlagNames == {"f1", "f2"}

\* A flag definition, as far as the cache is concerned: its value and version
FlagDefs == {[value |-> "a", version |-> 1], [value |-> "b", version |-> 2]}

\* dict.get(key) of a missing key
NoFlag == [value |-> "None", version |-> 0]

\* A Python dict: its entries in insertion order, no key twice
Dicts ==
    {<<>>}
    \cup {<<[name |-> n, flag |-> f]>> : n \in FlagNames, f \in FlagDefs}
    \cup {d \in {<<[name |-> n1, flag |-> g1], [name |-> n2, flag |-> g2]>> :
                    n1 \in FlagNames, n2 \in FlagNames, g1 \in FlagDefs, g2 \in FlagDefs} :
             d[1].name # d[2].name}

DictKeys(d) == {d[i].name : i \in 1..Len(d)}

DictGet(d, k) ==
    IF k \in DictKeys(d)
    THEN d[CHOOSE i \in 1..Len(d) : d[i].name = k].flag
    ELSE NoFlag

\* d[k] = f: an existing key keeps its place, a new key goes last
DictSet(d, k, f) ==
    IF k \in DictKeys(d)
    THEN [i \in 1..Len(d) |-> IF d[i].name = k THEN [name |-> k, flag |-> f] ELSE d[i]]
    ELSE Append(d, [name |-> k, flag |-> f])

\* d.update(new)
RECURSIVE DictUpdate(_, _)
DictUpdate(d, new) ==
    IF new = <<>> THEN d
    ELSE DictUpdate(DictSet(d, Head(new).name, Head(new).flag), Tail(new))

\* {k: v for k, v in d.items() if k in keys}
RECURSIVE DictFilter(_, _)
DictFilter(d, keys) ==
    IF d = <<>> THEN <<>>
    ELSE IF Head(d).name \in keys
         THEN <<Head(d)>> \o DictFilter(Tail(d), keys)
         ELSE DictFilter(Tail(d), keys)

\* The threads of SpecCache: the polling worker and one caller thread
CacheThreads == {"polling", "caller"}

\* What __init__ leaves behind: _initial_fetch replaces the cache by what
\* _fetch_flags returned; a fetch that raised leaves the cache empty and, when
\* the exception is not a FeatureFlagsHQError, records one more failure
InitialFetchStates ==
    {[flags |-> d, env |-> "dict", cb |-> FreshBreaker] : d \in Dicts}
    \cup {[flags |-> <<>>, env |-> "dict", cb |-> AfterFailure(FreshBreaker, 0)],
          [flags |-> <<>>, env |-> "str", cb |-> AfterFailure(AfterSuccess(FreshBreaker), 0)]}

NoIter == [alias |-> FALSE, dict |-> <<>>, keys |-> {}, pos |-> 0, used |-> 0]

\* The cache group at rest
CacheIdle ==
    /\ feature_flags = <<>>
    /\ environment_info = "dict"
    /\ spc = [t \in CacheThreads |-> IF t = "polling" THEN "wait" ELSE "idle"]
    /\ new_flags = [t \in CacheThreads |-> <<>>]
    /\ kept = {}
    /\ raised = [t \in CacheThreads |-> "none"]
    /\ outcome = [t \in CacheThreads |-> "none"]
    /\ iter = NoIter
    /\ user_flags = <<>>
    /\ read_result = "none"
    /\ seen = {}

CacheInit ==
    /\ now = 0
    /\ \E s \in InitialFetchStates :
          /\ feature_flags = s.flags
          /\ environment_info = s.env
          /\ circuit_breaker = s.cb
    /\ spc = [t \in CacheThreads |-> IF t = "polling" THEN "wait" ELSE "idle"]
    /\ new_flags = [t \in CacheThreads |-> <<>>]
    /\ kept = {}
    /\ raised = [t \in CacheThreads |-> "none"]
    /\ outcome = [t \in CacheThreads |-> "none"]
    /\ iter = NoIter
    /\ user_flags = <<>>
    /\ read_result = "none"
    /\ seen = {}

\* What the steps of _fetch_flags leave alone
FetchFrame == UNCHANGED <<now, feature_flags, kept, iter, user_flags, read_result, seen>>

\* _fetch_flags: the breaker answers no; return {} without a call
FetchBlocked(t) ==
    /\ spc[t] = "fetch"
    /\ ~CircuitBreakerAllows(circuit_breaker, now)
    /\ new_flags' = [new_flags EXCEPT ![t] = <<>>]
    /\ outcome' = [outcome EXCEPT ![t] = "blocked"]
    /\ spc' = [spc EXCEPT ![t] = "fetched"]
    /\ UNCHANGED <<circuit_breaker, environment_info, raised>>
    /\ FetchFrame

\* _fetch_flags: the breaker answers yes; session.get is sent
FetchSends(t) ==
    /\ spc[t] = "fetch"
    /\ CircuitBreakerAllows(circuit_breaker, now)
    /\ circuit_breaker' = AfterCheck(circuit_breaker, now)
    /\ spc' = [spc EXCEPT ![t] = "in_flight"]
    /\ UNCHANGED <<environment_info, new_flags, raised, outcome>>
    /\ FetchFrame

\* The failures of the call that _fetch_flags turns into an exception of its own
RaisedFor(kind) ==
    CASE kind = "unauthorized" -> "FeatureFlagsHQAuthError"
      [] kind = "timeout" -> "FeatureFlagsHQTimeoutError"
      [] kind = "connection_error" -> "FeatureFlagsHQNetworkError"

\* _fetch_flags: status 401, requests Timeout or ConnectionError: the failure
\* is recorded and an exception raised
FetchRaises(t, kind) ==
    /\ spc[t] = "in_flight"
    /\ circuit_breaker.failure_count < MaxFailureCount
    /\ circuit_breaker' = AfterFailure(circuit_breaker, now)
    /\ raised' = [raised EXCEPT ![t] = RaisedFor(kind)]
    /\ outcome' = [outcome EXCEPT ![t] = kind]
    /\ spc' = [spc EXCEPT ![t] = "raised"]
    /\ UNCHANGED <<environment_info, new_flags>>
    /\ FetchFrame

\* _fetch_flags: raise_for_status raises an HTTPError (any other
\* RequestException): the failure is recorded and {} returned
FetchHttpError(t) ==
    /\ spc[t] = "in_flight"
    /\ circuit_breaker.failure_count < MaxFailureCount
    /\ circuit_breaker' = AfterFailure(circuit_breaker, now)
    /\ new_flags' = [new_flags EXCEPT ![t] = <<>>]
    /\ outcome' = [outcome EXCEPT ![t] = "http_error"]
    /\ spc' = [spc EXCEPT ![t] = "fetched"]
    /\ UNCHANGED <<environment_info, raised>>
    /\ FetchFrame

\* _fetch_flags: a good response.  The success is recorded; 'environment', if
\* present, is stored, and setting ['provider'] on it raises TypeError when it
\* is not a dict; the flags of 'data' are returned
FetchOk(t, data, env) ==
    /\ spc[t] = "in_flight"
    /\ circuit_breaker' = AfterSuccess(circuit_breaker)
    /\ environment_info' = IF env = "absent" THEN environment_info ELSE env
    /\ IF env = "str"
       THEN /\ raised' = [raised EXCEPT ![t] = "TypeError"]
            /\ outcome' = [outcome EXCEPT ![t] = "bad_environment"]
            /\ spc' = [spc EXCEPT ![t] = "raised"]
            /\ UNCHANGED new_flags
       ELSE /\ new_flags' = [new_flags EXCEPT ![t] = data]
            /\ outcome' = [outcome EXCEPT ![t] = "ok"]
            /\ spc' = [spc EXCEPT ![t] = "fetched"]
            /\ UNCHANGED raised
    /\ FetchFrame

\* A merge is seen by a get_user_flags in progress
SeenAfter(d) == IF spc["caller"] \in {"iterating", "read"} THEN seen \cup {d} ELSE seen

\* A faulty merge, for comparison: the cache is replaced by the fetched response
MergeReplaces(d, new) == new

\* with self._flags_lock: self.feature_flags.update(new_flags)
Merge(d, new) == DictUpdate(d, new)

\* _polling_worker: the wait ends and an iteration begins
PollStart ==
    /\ spc["polling"] = "wait"
    /\ kept' = {}
    /\ spc' = [spc EXCEPT !["polling"] = "fetch"]
    /\ UNCHANGED <<cbVars, feature_flags, environment_info, new_flags, raised, outcome,
                   iter, user_flags, read_result, seen>>

\* _polling_worker: if new_flags: merge under the lock; then wait again
PollMerge ==
    /\ spc["polling"] = "fetched"
    /\ feature_flags' = IF new_flags["polling"] # <<>>
                        THEN Merge(feature_flags, new_flags["polling"])
                        ELSE feature_flags
    /\ seen' = SeenAfter(feature_flags')
    /\ kept' = IF new_flags["polling"] # <<>>
               THEN DictKeys(feature_flags) \ DictKeys(new_flags["polling"])
               ELSE {}
    /\ new_flags' = [new_flags EXCEPT !["polling"] = <<>>]
    /\ outcome' = [outcome EXCEPT !["polling"] = "none"]
    /\ spc' = [spc EXCEPT !["polling"] = "wait"]
    /\ UNCHANGED <<cbVars, environment_info, raised, iter, user_flags, read_result>>

\* A faulty except clause, for comparison: it names one exception class only
WorkerCatchesConfigErrors(e) == e = "FeatureFlagsHQConfigError"

\* The exceptions the worker's "except Exception" catches
WorkerCatches(e) == TRUE

\* _polling_worker: except Exception: log the error; then wait again.  An
\* exception that is not caught ends the thread
PollExcept ==
    /\ spc["polling"] = "raised"
    /\ spc' = [spc EXCEPT !["polling"] =
                 IF WorkerCatches(raised["polling"]) THEN "wait" ELSE "dead"]
    /\ raised' = [raised EXCEPT !["polling"] = "none"]
    /\ kept' = {}
    /\ outcome' = [outcome EXCEPT !["polling"] = "none"]
    /\ UNCHANGED <<cbVars, feature_flags, environment_info, new_flags,
                   iter, user_flags, read_result, seen>>

CallerStarts == spc["caller"] = "idle"

\* refresh_flags: new_flags = self._fetch_flags()
RefreshStart ==
    /\ CallerStarts
    /\ spc' = [spc EXCEPT !["caller"] = "fetch"]
    /\ read_result' = "none"
    /\ UNCHANGED <<cbVars, feature_flags, environment_info, new_flags, kept, raised,
                   outcome, iter, user_flags, seen>>

\* refresh_flags: if new_flags: merge under the lock, return True; else False
RefreshMerge ==
    /\ spc["caller"] = "fetched"
    /\ feature_flags' = IF new_flags["caller"] # <<>>
                        THEN Merge(feature_flags, new_flags["caller"])
                        ELSE feature_flags
    /\ new_flags' = [new_flags EXCEPT !["caller"] = <<>>]
    /\ outcome' = [outcome EXCEPT !["caller"] = "none"]
    /\ spc' = [spc EXCEPT !["caller"] = "idle"]
    /\ UNCHANGED <<cbVars, environment_info, kept, raised,
                   iter, user_flags, read_result, seen>>

\* refresh_flags: except Exception: log the error, return False
RefreshExcept ==
    /\ spc["caller"] = "raised"
    /\ raised' = [raised EXCEPT !["caller"] = "none"]
    /\ outcome' = [outcome EXCEPT !["caller"] = "none"]
    /\ spc' = [spc EXCEPT !["caller"] = "idle"]
    /\ UNCHANGED <<cbVars, feature_flags, environment_info, new_flags, kept,
                   iter, user_flags, read_result, seen>>

ReadFrame == UNCHANGED <<cbVars, feature_flags, environment_info, new_flags, kept, raised>>

\* get_user_flags: under the lock, flags_to_evaluate is the cache itself, or,
\* with flag_keys, a new dict of the cached flags whose key is listed; then the
\* loop's iterator is made, outside the lock.  Without flag_keys nothing is
\* read from the cache before the iterator is made, so this step is that moment
GetUserFlagsStart(flag_keys) ==
    /\ CallerStarts
    /\ iter' = IF flag_keys = {}
               THEN [alias |-> TRUE, dict |-> <<>>, keys |-> FlagNames, pos |-> 0,
                     used |-> Len(feature_flags)]
               ELSE [alias |-> FALSE, dict |-> DictFilter(feature_flags, flag_keys),
                     keys |-> flag_keys, pos |-> 0,
                     used |-> Len(DictFilter(feature_flags, flag_keys))]
    /\ user_flags' = <<>>
    /\ read_result' = "running"
    /\ seen' = {feature_flags}
    /\ spc' = [spc EXCEPT !["caller"] = "iterating"]
    /\ UNCHANGED outcome
    /\ ReadFrame

\* The dict the loop of get_user_flags iterates
Iterated == IF iter.alias THEN feature_flags ELSE iter.dict

\* The locals of a read are dropped when it returns
ReadEnds(result) ==
    /\ read_result' = result
    /\ iter' = NoIter
    /\ user_flags' = <<>>
    /\ seen' = {}
    /\ spc' = [spc EXCEPT !["caller"] = "idle"]

\* get_user_flags: one round of "for flag_key, flag in flags_to_evaluate.items()".
\* The iterator raises RuntimeError when the dict's size has changed, ends at
\* the last entry, and otherwise yields the next entry, which is evaluated
GetUserFlagsNext ==
    /\ spc["caller"] = "iterating"
    /\ IF Len(Iterated) # iter.used
       THEN ReadEnds("RuntimeError")
       ELSE IF iter.pos >= Len(Iterated)
            THEN ReadEnds("returned")
            ELSE /\ user_flags' = Append(user_flags, Iterated[iter.pos + 1])
                 /\ iter' = [iter EXCEPT !.pos = @ + 1]
                 /\ UNCHANGED <<read_result, spc, seen>>
    /\ UNCHANGED outcome
    /\ ReadFrame

\* get_all_flags: the whole comprehension runs under the lock
GetAllFlags ==
    /\ spc["caller"] = "idle"
    /\ iter' = [NoIter EXCEPT !.keys = FlagNames]
    /\ user_flags' = feature_flags
    /\ read_result' = "running"
    /\ seen' = {feature_flags}
    /\ spc' = [spc EXCEPT !["caller"] = "read"]
    /\ UNCHANGED outcome
    /\ ReadFrame

\* get: with self._flags_lock: flag = self.feature_flags.get(flag_key)
GetFlag(flag_key) ==
    /\ spc["caller"] = "idle"
    /\ iter' = [NoIter EXCEPT !.keys = {flag_key}]
    /\ user_flags' = DictFilter(feature_flags, {flag_key})
    /\ read_result' = "running"
    /\ seen' = {feature_flags}
    /\ spc' = [spc EXCEPT !["caller"] = "read"]
    /\ UNCHANGED outcome
    /\ ReadFrame

\* get and get_all_flags return what they read under the lock
ReadReturns ==
    /\ spc["caller"] = "read"
    /\ ReadEnds("returned")
    /\ UNCHANGED outcome
    /\ ReadFrame

FetchKinds == {"unauthorized", "timeout", "connection_error"}
Environments == {"absent", "dict", "str"}

\* What the steps of SpecCache leave alone besides the cache group
cacheRest == <<breakerOnly, getVars, valVars, moreVars>>

CacheNext ==
    \/ \E t \in CacheThreads : FetchBlocked(t) /\ UNCHANGED cacheRest
    \/ \E t \in CacheThreads : FetchSends(t) /\ UNCHANGED cacheRest
    \/ \E t \in CacheThreads, kind \in FetchKinds : FetchRaises(t, kind) /\ UNCHANGED cacheRest
    \/ \E t \in CacheThreads : FetchHttpError(t) /\ UNCHANGED cacheRest
    \/ \E t \in CacheThreads, data \in Dicts, env \in Environments : FetchOk(t, data, env) /\ UNCHANGED cacheRest
    \/ PollStart /\ UNCHANGED cacheRest
    \/ PollMerge /\ UNCHANGED cacheRest
    \/ PollExcept /\ UNCHANGED cacheRest
    \/ RefreshStart /\ UNCHANGED cacheRest
    \/ RefreshMerge /\ UNCHANGED cacheRest
    \/ RefreshExcept /\ UNCHANGED cacheRest
    \/ \E flag_keys \in SUBSET FlagNames : GetUserFlagsStart(flag_keys) /\ UNCHANGED cacheRest
    \/ GetUserFlagsNext /\ UNCHANGED cacheRest
    \/ GetAllFlags /\ UNCHANGED cacheRest
    \/ \E flag_key \in FlagNames : GetFlag(flag_key) /\ UNCHANGED cacheRest
    \/ ReadReturns /\ UNCHANGED cacheRest

(***************************************************************************)
(* Strings and the validation of get's arguments                           *)
(*                                                                         *)
(* A string is a sequence of runs [ch, n]: n times the character ch, with  *)
(* neighbouring runs of different characters.  "a" stands for a letter or  *)
(* digit, "x01" for the control character \x01.                            *)
(***************************************************************************)

MAX_USER_ID_LENGTH == 256
MAX_FLAG_KEY_LENGTH == 128

Chars == {"a", " ", "\n", "x01", ".", "/"}

\* str.strip() removes these from both ends
Whitespace == {" ", "\n"}

MaxRuns == 2
ShortCounts == {1, 2}
LongCounts == {MAX_FLAG_KEY_LENGTH, MAX_FLAG_KEY_LENGTH + 1,
               MAX_USER_ID_LENGTH, MAX_USER_ID_LENGTH + 1}

Runs ==
    {[ch |-> c, n |-> k] : c \in Chars, k \in ShortCounts}
    \cup {[ch |-> "a", n |-> k] : k \in LongCounts}

\* The strings get is called with
Texts ==
    {s \in UNION {[1..l -> Runs] : l \in 0..MaxRuns} :
        \A i \in 1..(Len(s) - 1) : s[i].ch # s[i + 1].ch}

RECURSIVE StrLen(_)
StrLen(s) == IF s = <<>> THEN 0 ELSE Head(s).n + StrLen(Tail(s))

RECURSIVE LStrip(_)
LStrip(s) == IF s # <<>> /\ Head(s).ch \in Whitespace THEN LStrip(Tail(s)) ELSE s

RECURSIVE RStrip(_)
RStrip(s) ==
    IF s # <<>> /\ s[Len(s)].ch \in Whitespace THEN RStrip(SubSeq(s, 1, Len(s) - 1)) ELSE s

\* s.strip()
Strip(s) == RStrip(LStrip(s))

\* any(char in s for char in chars), for single characters
HasChar(s, chars) == \E i \in 1..Len(s) : s[i].ch \in chars

\* '..' in s
HasDotDot(s) == \E i \in 1..Len(s) : s[i].ch = "." /\ s[i].n >= 2

\* re.match(r'^[...]+$', s) for a stripped s, the class given as a set
Matches(s, class) == s # <<>> /\ \A i \in 1..Len(s) : s[i].ch \in class

\* The result of a validation that raises FeatureFlagsHQError
Raises == [raised |-> TRUE, value |-> <<>>]

\* dangerous_chars of _validate_user_id: \n \r \0 \t \x1b
UserIdDangerous == {"\n"}

\* [a-zA-Z0-9_@\.\-\+]
UserIdClass == {"a", "."}

\* _validate_user_id: an id that does not match the pattern is only logged
ValidateUserId(user_id) ==
    LET stripped == Strip(user_id) IN
    IF stripped = <<>> THEN Raises
    ELSE IF StrLen(stripped) > MAX_USER_ID_LENGTH THEN Raises
    ELSE IF HasChar(stripped, UserIdDangerous) THEN Raises
    ELSE [raised |-> FALSE, value |-> stripped]

\* dangerous_chars of _validate_flag_key: \n \r \0 \t \x1b / \ and '..'
FlagKeyDangerous == {"\n", "/"}

\* [a-zA-Z0-9_\-]
FlagKeyClass == {"a"}

\* _validate_flag_key: a key that does not match the pattern is rejected
ValidateFlagKey(flag_key) ==
    LET stripped == Strip(flag_key) IN
    IF stripped = <<>> THEN Raises
    ELSE IF StrLen(stripped) > MAX_FLAG_KEY_LENGTH THEN Raises
    ELSE IF HasChar(stripped, FlagKeyDangerous) \/ HasDotDot(stripped) THEN Raises
    ELSE IF ~Matches(stripped, FlagKeyClass) THEN Raises
    ELSE [raised |-> FALSE, value |-> stripped]

\* _rate_limit_check: literals of the window test and of the cap
rate_window == 60
rate_cap == 1000

\* _rate_limit_check: the entries whose last request is less than a minute old
RateLimitKept(limits, t) ==
    [u \in {v \in DOMAIN limits : t - limits[v].last_time < rate_window} |-> limits[u]]

\* A faulty limiter, for comparison: nobody is refused
RateLimitNeverRefuses(limits, user_id, t) == TRUE

\* _rate_limit_check at time t, its return value: a user whose kept entry
\* counts more than 1000 requests is refused
RateLimitAllows(limits, user_id, t) ==
    ~(/\ user_id \in DOMAIN RateLimitKept(limits, t)
      /\ limits[user_id].requests > rate_cap)

\* _rate_limit_check at time t, self._rate_limits afterwards: old entries are
\* dropped; the request is counted, with t as the entry's time, unless refused
RateLimitAfter(limits, user_id, t) ==
    LET kept_limits == RateLimitKept(limits, t) IN
    IF user_id \in DOMAIN kept_limits
    THEN IF kept_limits[user_id].requests > rate_cap THEN kept_limits
         ELSE [kept_limits EXCEPT ![user_id] =
                   [requests |-> @.requests + 1, last_time |-> t]]
    ELSE kept_limits @@ (user_id :> [requests |-> 1, last_time |-> t])

\* The validation group at rest
ValidateIdle ==
    /\ v_user_id = <<>>
    /\ v_flag_key = <<>>
    /\ v_result = "idle"

(***************************************************************************)
(* get, _log_user_access and _update_timing_stats                          *)
(*                                                                         *)
(* In Spec the caller threads call get with arguments that pass the        *)
(* validation; the cache and environment_info are what the fetches left.   *)
(***************************************************************************)

GetThreads == {"c1", "c2"}

MaxCalls == 3

\* The user of the calls of Spec
User == <<[ch |-> "a", n |-> 2]>>

\* evaluation_time_ms: the rounded duration, 0.0 or more
EvaluationTimes == {0, 1}

\* The states of the cache and of environment_info that the fetches leave
\* behind; "str" stands for any 'environment' of a response that is not a dict
GetCaches == {d \in Dicts : Len(d) <= 1}

\* The get group at rest
GetIdle ==
    /\ gpc = [t \in GetThreads |-> "idle"]
    /\ gkey = [t \in GetThreads |-> "none"]
    /\ gtime = [t \in GetThreads |-> 0]
    /\ gin_try = [t \in GetThreads |-> FALSE]
    /\ gvalue = [t \in GetThreads |-> "none"]
    /\ gresult = [t \in GetThreads |-> "none"]
    /\ stats_lock = "free"
    /\ user_access_logs = 0
    /\ total_user_accesses = 0
    /\ rate_limits = <<>>
    /\ enable_metrics = TRUE
    /\ calls = 0

GetInit ==
    /\ gpc = [t \in GetThreads |-> "idle"]
    /\ gkey = [t \in GetThreads |-> "none"]
    /\ gtime = [t \in GetThreads |-> 0]
    /\ gin_try = [t \in GetThreads |-> FALSE]
    /\ gvalue = [t \in GetThreads |-> "none"]
    /\ gresult = [t \in GetThreads |-> "none"]
    /\ stats_lock = "free"
    /\ user_access_logs = 0
    /\ total_user_accesses = 0
    /\ rate_limits \in {<<>>, (User :> [requests |-> rate_cap, last_time |-> 0])}
    /\ enable_metrics \in BOOLEAN
    /\ calls = 0
    /\ feature_flags \in GetCaches
    /\ environment_info \in {"dict", "str"}
    /\ spc = [t \in CacheThreads |-> IF t = "polling" THEN "wait" ELSE "idle"]
    /\ new_flags = [t \in CacheThreads |-> <<>>]
    /\ kept = {}
    /\ raised = [t \in CacheThreads |-> "none"]
    /\ outcome = [t \in CacheThreads |-> "none"]
    /\ iter = NoIter
    /\ user_flags = <<>>
    /\ read_result = "none"
    /\ seen = {}
    /\ circuit_breaker = FreshBreaker
    /\ now = 0

\* What the steps of get leave alone
GetFrame == UNCHANGED <<cbVars, cacheVars, valVars, moreVars, enable_metrics>>

\* get ends for thread t with the given result
GetEnds(t, result) ==
    /\ gresult' = [gresult EXCEPT ![t] = result]
    /\ gpc' = [gpc EXCEPT ![t] = "idle"]
    /\ gkey' = [gkey EXCEPT ![t] = "none"]
    /\ gtime' = [gtime EXCEPT ![t] = 0]
    /\ gin_try' = [gin_try EXCEPT ![t] = FALSE]
    /\ gvalue' = [gvalue EXCEPT ![t] = "none"]

\* get, up to the memory monitor: the arguments pass the validation; a
\* rate-limited call returns default_value; otherwise the request is counted
\* and total_user_accesses % 1000 decides whether _cleanup_old_stats is called
GetStart(t, flag_key, time_ms) ==
    /\ gpc[t] = "idle"
    /\ calls < MaxCalls
    /\ calls' = calls + 1
    /\ rate_limits' = RateLimitAfter(rate_limits, User, now)
    /\ IF RateLimitAllows(rate_limits, User, now)
       THEN /\ gpc' = [gpc EXCEPT ![t] =
                         IF total_user_accesses % 1000 = 0 THEN "cleanup" ELSE "lookup"]
            /\ gkey' = [gkey EXCEPT ![t] = flag_key]
            /\ gtime' = [gtime EXCEPT ![t] = time_ms]
            /\ gresult' = [gresult EXCEPT ![t] = "none"]
            /\ UNCHANGED <<gin_try, gvalue>>
       ELSE GetEnds(t, "default_value")
    /\ UNCHANGED <<stats_lock, user_access_logs, total_user_accesses>>
    /\ GetFrame

\* _cleanup_old_stats: its body runs with _stats_lock held
CleanupOldStats(t) ==
    /\ gpc[t] = "cleanup"
    /\ stats_lock = "free"
    /\ gpc' = [gpc EXCEPT ![t] = "lookup"]
    /\ UNCHANGED <<gkey, gtime, gin_try, gvalue, gresult, stats_lock, user_access_logs,
                   total_user_accesses, rate_limits, calls>>
    /\ GetFrame

\* What the evaluation of a cached flag leaves in flag_value: the exception
\* it raised; the flag's typed value, no default having been used; the
\* caller's default_value, put in the place of a default that was used; the
\* type's default, default_value being None
Evaluations == {"raises", "flag_value", "default_value", "typed_default"}

\* get: the flag is looked up under _flags_lock.  Not found: _log_user_access
\* is called outside the try, then default_value returned.  Found: inside the
\* try the flag is evaluated, which may raise, the caller's default takes the
\* place of a default that was used, and _log_user_access is called
LookupFlag(t, evaluation) ==
    /\ gpc[t] = "lookup"
    /\ IF DictGet(feature_flags, gkey[t]) = NoFlag
       THEN /\ gpc' = [gpc EXCEPT ![t] = "log"]
            /\ gin_try' = [gin_try EXCEPT ![t] = FALSE]
            /\ gvalue' = [gvalue EXCEPT ![t] = "default_value"]
            /\ UNCHANGED <<gkey, gtime, gresult>>
       ELSE IF evaluation # "raises"
            THEN /\ gpc' = [gpc EXCEPT ![t] = "log"]
                 /\ gin_try' = [gin_try EXCEPT ![t] = TRUE]
                 /\ gvalue' = [gvalue EXCEPT ![t] = evaluation]
                 /\ UNCHANGED <<gkey, gtime, gresult>>
            ELSE GetEnds(t, "default_value")
    /\ UNCHANGED <<stats_lock, user_access_logs, total_user_accesses, rate_limits, calls>>
    /\ GetFrame

\* An exception raised in _log_user_access reaches get's "except Exception"
\* when the call is inside the try, and get's caller when it is not
LogRaises(t, e) == GetEnds(t, IF gin_try[t] THEN "default_value" ELSE e)

\* _log_user_access, up to the statistics: nothing to do without metrics;
\* building the entry calls self.environment_info.get, which raises
\* AttributeError when environment_info is not a dict; the entry is queued
LogUserAccess(t) ==
    /\ gpc[t] = "log"
    /\ IF ~enable_metrics
       THEN GetEnds(t, gvalue[t]) /\ UNCHANGED user_access_logs
       ELSE IF environment_info # "dict"
            THEN LogRaises(t, "AttributeError") /\ UNCHANGED user_access_logs
            ELSE /\ user_access_logs' = user_access_logs + 1
                 /\ gpc' = [gpc EXCEPT ![t] = "stats"]
                 /\ UNCHANGED <<gkey, gtime, gin_try, gvalue, gresult>>
    /\ UNCHANGED <<stats_lock, total_user_accesses, rate_limits, calls>>
    /\ GetFrame

\* _log_user_access: with self._stats_lock: the access is counted; the
\* timing statistics are updated next if evaluation_time_ms > 0
StatsAcquire(t) ==
    /\ gpc[t] = "stats"
    /\ stats_lock = "free"
    /\ stats_lock' = t
    /\ total_user_accesses' = total_user_accesses + 1
    /\ gpc' = [gpc EXCEPT ![t] = IF gtime[t] > 0 THEN "timing" ELSE "release"]
    /\ UNCHANGED <<gkey, gtime, gin_try, gvalue, gresult, user_access_logs, rate_limits, calls>>
    /\ GetFrame

\* _update_timing_stats: with self._stats_lock.  The lock is a threading.Lock:
\* a thread that finds it held waits until it is released, its holder included
UpdateTimingStats(t) ==
    /\ gpc[t] = "timing"
    /\ gpc' = [gpc EXCEPT ![t] = IF stats_lock = "free" THEN "release" ELSE "waiting"]
    /\ UNCHANGED <<gkey, gtime, gin_try, gvalue, gresult, stats_lock, user_access_logs,
                   total_user_accesses, rate_limits, calls>>
    /\ GetFrame

\* _log_user_access: the with-block ends and the lock is released; get returns
StatsRelease(t) ==
    /\ gpc[t] = "release"
    /\ stats_lock' = "free"
    /\ GetEnds(t, gvalue[t])
    /\ UNCHANGED <<user_access_logs, total_user_accesses, rate_limits, calls>>
    /\ GetFrame

GetNext ==
    \/ \E t \in GetThreads, flag_key \in FlagNames, time_ms \in EvaluationTimes :
          GetStart(t, flag_key, time_ms)
    \/ \E t \in GetThreads : CleanupOldStats(t)
    \/ \E t \in GetThreads, evaluation \in Evaluations : LookupFlag(t, evaluation)
    \/ \E t \in GetThreads : LogUserAccess(t)
    \/ \E t \in GetThreads : StatsAcquire(t)
    \/ \E t \in GetThreads : UpdateTimingStats(t)
    \/ \E t \in GetThreads : StatsRelease(t)

(***************************************************************************)
(* One get as far as its rate-limit check, for arguments of every kind     *)
(***************************************************************************)

\* A flag key that passes the validation
Key == <<[ch |-> "a", n |-> 1]>>

\* The argument pairs of SpecValidate: one of the two is arbitrary
ArgumentPairs ==
    {<<u, Key>> : u \in Texts} \cup {<<User, k>> : k \in Texts}

ValidateInit ==
    /\ \E a \in ArgumentPairs :
          /\ v_user_id = a[1]
          /\ v_flag_key = a[2]
    /\ v_result = "pending"

\* get: _validate_user_id, then _validate_flag_key; FeatureFlagsHQError is
\* raised again to the caller; otherwise _rate_limit_check counts the request
GetValidates ==
    /\ v_result = "pending"
    /\ IF ValidateUserId(v_user_id).raised \/ ValidateFlagKey(v_flag_key).raised
       THEN /\ v_result' = "raised"
            /\ UNCHANGED rate_limits
       ELSE /\ v_result' = "accepted"
            /\ rate_limits' = RateLimitAfter(rate_limits, ValidateUserId(v_user_id).value, now)
    /\ UNCHANGED <<v_user_id, v_flag_key>>
    /\ UNCHANGED <<cbVars, cacheVars, moreVars>>
    /\ UNCHANGED <<gpc, gkey, gtime, gin_try, gvalue, gresult, stats_lock, user_access_logs,
                   total_user_accesses, enable_metrics, calls>>

(***************************************************************************)
(* The further groups before any call                                      *)
(***************************************************************************)

RateIdle ==
    /\ rl_allowed = "none"
    /\ window_start = None
    /\ window_calls = 0
    /\ rl_requests = 0

\* The threads that run _upload_user_logs: _log_upload_worker, and a caller
\* of flush_logs
UploadThreads == {"log_upload", "caller"}

UploadIdle ==
    /\ log_entries = <<>>
    /\ offline_mode = FALSE
    /\ logged = 0
    /\ upc = [t \in UploadThreads |-> "idle"]
    /\ logs_batch = [t \in UploadThreads |-> <<>>]
    /\ drained = [t \in UploadThreads |-> {}]
    /\ attempt = [t \in UploadThreads |-> "none"]
    /\ uploaded = {}
    /\ flush_pending = {}
    /\ flush_result = "none"

NotifyIdle ==
    /\ old_flags = <<>>
    /\ notified = {}

\* evaluation_context as evaluate_for_user sets it up, before any result
NoResult ==
    [value |-> "none", done |-> FALSE, raised |-> "none",
     context |-> [segments_matched |-> <<>>, segments_evaluated |-> <<>>,
                  rollout_qualified |-> FALSE, default_value_used |-> FALSE,
                  evaluation_reason |-> "unknown"]]

EvalIdle ==
    /\ e_flag = [is_active |-> FALSE, type |-> "string", value |-> "", segments |-> <<>>,
                 percentage |-> 100]
    /\ e_segments = [given |-> FALSE, map |-> <<>>]
    /\ e_user_percentage = 0
    /\ e_result = NoResult
    /\ e_previous = NoResult

\* The two background threads, in the order of threads_to_join
Workers == <<"polling", "log_upload">>
WorkerNames == {Workers[i] : i \in DOMAIN Workers}

\* No thread started, shutdown not called
WorkerIdle ==
    /\ stop_event = FALSE
    /\ started = [w \in WorkerNames |-> FALSE]
    /\ wpc = [w \in WorkerNames |-> "none"]
    /\ w_raised = [w \in WorkerNames |-> "none"]
    /\ iterations = [w \in WorkerNames |-> 0]
    /\ sdpc = "idle"
    /\ join_index = 1
    /\ join_waited = 0
    /\ total_waited = 0

\* Nobody tracked yet
StatsIdle ==
    /\ unique_users = 0
    /\ unique_flags_accessed = 0
    /\ st_gets = 0

\* No response yet
ParseIdle ==
    /\ response_data = <<>>
    /\ flags = {}
    /\ parse_raised = "none"
    /\ parsed = FALSE

\* No call of _rate_limit_check yet
LimitIdle ==
    /\ rlpc = [t \in GetThreads |-> "idle"]
    /\ rl_kept = [t \in GetThreads |-> <<>>]
    /\ rl_count = [t \in GetThreads |-> 0]
    /\ rl_started = 0
    /\ rl_granted = 0

\* shutdown not called, the object alive
ShutIdle ==
    /\ sd_log = <<>>
    /\ sd_raised = {}
    /\ sd_calls = 0
    /\ sd_escaped = "none"
    /\ deleted = FALSE

\* No outbound call made yet
OutcomeIdle ==
    /\ oc_path = "none"
    /\ oc_response = "none"
    /\ oc_reports = <<>>

LastIdle == LimitIdle /\ ShutIdle /\ OutcomeIdle

LaterIdle == WorkerIdle /\ StatsIdle /\ ParseIdle /\ LastIdle

\* The later groups at rest
MoreIdle == RateIdle /\ UploadIdle /\ NotifyIdle /\ EvalIdle /\ LaterIdle

(***************************************************************************)
(* The rate limiter over time: one user, one caller                        *)
(***************************************************************************)

\* The calls of _rate_limit_check that the model follows
MaxRequests == 4

\* The user has made no request yet, or 999 requests in this instant
RateInit ==
    /\ rl_allowed \in {"none", "allowed"}
    /\ rl_requests = 0
    /\ IF rl_allowed = "none"
       THEN /\ rate_limits = <<>>
            /\ window_start = None
            /\ window_calls = 0
       ELSE /\ rate_limits = (User :> [requests |-> rate_cap - 1, last_time |-> 0])
            /\ window_start = 0
            /\ window_calls = rate_cap - 1

\* The variables of get other than self._rate_limits
getButLimits == <<gpc, gkey, gtime, gin_try, gvalue, gresult, stats_lock, user_access_logs,
                  total_user_accesses, enable_metrics, calls>>

\* The window of the documentation: it begins with the first request and
\* with the first request 60 s or more after its beginning
WindowOver == window_start = None \/ now - window_start >= rate_window

\* One call of _rate_limit_check(User) at the current time
RateRequest ==
    /\ rl_requests < MaxRequests
    /\ rl_requests' = rl_requests + 1
    /\ rl_allowed' = IF RateLimitAllows(rate_limits, User, now) THEN "allowed" ELSE "denied"
    /\ rate_limits' = RateLimitAfter(rate_limits, User, now)
    /\ window_start' = IF WindowOver THEN now ELSE window_start
    /\ window_calls' = IF WindowOver THEN 1 ELSE window_calls + 1
    /\ UNCHANGED <<cbVars, cacheVars, valVars, getButLimits, uploadVars, notifyVars, evalVars, laterVars>>

RateNext ==
    \/ RateRequest
    \/ Tick /\ UNCHANGED <<cacheVars, getVars, valVars, moreVars>>

InitRate ==
    /\ RateInit
    /\ BreakerIdle /\ CacheIdle /\ ValidateIdle /\ UploadIdle /\ NotifyIdle /\ EvalIdle
    /\ LaterIdle
    /\ circuit_breaker = FreshBreaker
    /\ now = 0
    /\ gpc = [t \in GetThreads |-> "idle"]
    /\ gkey = [t \in GetThreads |-> "none"]
    /\ gtime = [t \in GetThreads |-> 0]
    /\ gin_try = [t \in GetThreads |-> FALSE]
    /\ gvalue = [t \in GetThreads |-> "none"]
    /\ gresult = [t \in GetThreads |-> "none"]
    /\ stats_lock = "free"
    /\ user_access_logs = 0
    /\ total_user_accesses = 0
    /\ enable_metrics = TRUE
    /\ calls = 0

SpecRate == InitRate /\ [][RateNext]_vars

\* C11: a request that is at most the 1000th of its 60 s window is allowed,
\* and the 1001st request of a window is denied.
C11_CapIsThousandPerWindow ==
    [][(window_calls' # window_calls \/ window_start' # window_start)
       => /\ window_calls' <= rate_cap => rl_allowed' = "allowed"
          /\ window_calls' = rate_cap + 1 => rl_allowed' = "denied"]_vars

\* C12: the first request 60 s or more after the window started is allowed and
\* leaves the bucket at (1, now).
C12_WindowResetsFromItsStart ==
    [][(window_start # None /\ now - window_start >= rate_window /\ window_start' = now)
       => /\ rl_allowed' = "allowed"
          /\ rate_limits'[User] = [requests |-> 1, last_time |-> now]]_vars

(***************************************************************************)
(* The telemetry queue: _log_user_access, _upload_user_logs, flush_logs    *)
(***************************************************************************)

\* The entries that the model lets _log_user_access make
MaxLogged == 3

\* max_logs_batch as the constructor is given it here
max_logs_batch == 2

\* Queue(): maxsize 0, which queue.Queue takes as no limit
queue_maxsize == 0

QueueFull(q) == queue_maxsize > 0 /\ Len(q) >= queue_maxsize

Entries(q) == {q[i] : i \in DOMAIN q}

\* A faulty __post_init__, for comparison: it generates an id in any case
PostInitGeneratesAnyway(e, k) == [e EXCEPT !.request_id = <<e.n, k>>]

\* FeatureFlagsHQUserAccessLog.__post_init__: "if not self.request_id" the id
\* becomes str(uuid.uuid4())[:16], a value nothing else has: here the pair of
\* the entry and k, which is 0 for the object _log_user_access makes and 1 for
\* one made from a dict of the batch; <<>> stands for the empty string
PostInit(e, k) == IF e.request_id = <<>> THEN [e EXCEPT !.request_id = <<e.n, k>>] ELSE e

\* _log_user_access: FeatureFlagsHQUserAccessLog(..., request_id="", ...)
NewEntry(n) == PostInit([n |-> n, request_id |-> <<>>], 0)

\* FeatureFlagsHQUserAccessLog(**asdict(entry)): the fields are copied and
\* __post_init__ generates a request id only if there is none
Rebuilt(e) == PostInit(e, 1)

\* A faulty retry, for comparison: nothing is put back
RequeuedNowhere(q, e) == q

\* _upload_user_logs, except branch: self.user_access_logs.put(log_entry)
Requeued(q, e) == Append(q, Rebuilt(e))

UploadInit ==
    /\ log_entries = <<>>
    /\ offline_mode \in BOOLEAN
    /\ logged = 0
    /\ upc = [t \in UploadThreads |-> "idle"]
    /\ logs_batch = [t \in UploadThreads |-> <<>>]
    /\ drained = [t \in UploadThreads |-> {}]
    /\ attempt = [t \in UploadThreads |-> "none"]
    /\ uploaded = {}
    /\ flush_pending = {}
    /\ flush_result = "none"

\* What the steps of this group leave alone (the clock stands still here, so
\* an open breaker stays open)
uploadRest == <<breakerOnly, cacheVars, getVars, valVars, rateVars, notifyVars, evalVars,
               laterVars>>

\* _log_user_access, the queueing: put(block=False); if that raises, the
\* oldest entry is taken out and the put repeated
QueueLogEntry ==
    /\ logged < MaxLogged
    /\ logged' = logged + 1
    /\ log_entries' = IF QueueFull(log_entries)
                      THEN Append(Tail(log_entries), NewEntry(logged + 1))
                      ELSE Append(log_entries, NewEntry(logged + 1))
    /\ UNCHANGED <<offline_mode, upc, logs_batch, drained, attempt, uploaded,
                   flush_pending, flush_result>>
    /\ UNCHANGED <<circuit_breaker, now>>

\* _upload_user_logs returns (and with it flush_logs, which returns True)
UploadEnds(t, how) ==
    /\ upc' = [upc EXCEPT ![t] = "idle"]
    /\ attempt' = [attempt EXCEPT ![t] = how]
    /\ flush_result' = IF t = "caller" THEN "True" ELSE flush_result

\* _log_upload_worker wakes up and calls _upload_user_logs; or flush_logs is
\* called with the client online and does
UploadCalled(t) ==
    /\ ~offline_mode
    /\ upc[t] = "idle"
    /\ upc' = [upc EXCEPT ![t] = "check"]
    /\ drained' = [drained EXCEPT ![t] = {}]
    /\ attempt' = [attempt EXCEPT ![t] = "none"]
    /\ flush_pending' = IF t = "caller" THEN Entries(log_entries) ELSE flush_pending
    /\ flush_result' = IF t = "caller" THEN "none" ELSE flush_result
    /\ UNCHANGED <<log_entries, offline_mode, logged, logs_batch, uploaded>>
    /\ UNCHANGED <<circuit_breaker, now>>

\* flush_logs in offline mode
FlushOffline ==
    /\ offline_mode
    /\ flush_result' = "False"
    /\ UNCHANGED <<log_entries, offline_mode, logged, upc, logs_batch, drained, attempt,
                   uploaded, flush_pending>>
    /\ UNCHANGED <<circuit_breaker, now>>

\* _upload_user_logs, first statement: return if the queue is empty or the
\* breaker refuses (the breaker is asked only if the queue is not empty)
UploadChecks(t) ==
    /\ upc[t] = "check"
    /\ IF log_entries = <<>>
       THEN /\ UploadEnds(t, "nothing")
            /\ UNCHANGED circuit_breaker
       ELSE /\ circuit_breaker' = AfterCheck(circuit_breaker, now)
            /\ IF CircuitBreakerAllows(circuit_breaker, now)
               THEN /\ upc' = [upc EXCEPT ![t] = "drain"]
                    /\ UNCHANGED <<attempt, flush_result>>
               ELSE UploadEnds(t, "refused")
    /\ UNCHANGED <<log_entries, offline_mode, logged, logs_batch, drained, uploaded,
                   flush_pending, now>>

\* A faulty loop condition, for comparison: the batch has no limit
BatchAlwaysHasRoom(batch) == TRUE

\* len(logs_batch) < self.max_logs_batch
BatchHasRoom(batch) == Len(batch) < max_logs_batch

\* _upload_user_logs, one round of the while loop; after it, an empty batch
\* makes the function return
UploadDrains(t) ==
    /\ upc[t] = "drain"
    /\ IF log_entries # <<>> /\ BatchHasRoom(logs_batch[t])
       THEN /\ log_entries' = Tail(log_entries)
            /\ logs_batch' = [logs_batch EXCEPT ![t] = Append(@, Head(log_entries))]
            /\ drained' = [drained EXCEPT ![t] = @ \cup {Head(log_entries)}]
            /\ UNCHANGED <<upc, attempt, flush_result>>
       ELSE /\ IF logs_batch[t] = <<>>
               THEN UploadEnds(t, "nothing")
               ELSE /\ upc' = [upc EXCEPT ![t] = "post"]
                    /\ UNCHANGED <<attempt, flush_result>>
            /\ UNCHANGED <<log_entries, logs_batch, drained>>
    /\ UNCHANGED <<offline_mode, logged, uploaded, flush_pending>>
    /\ UNCHANGED <<circuit_breaker, now>>

\* _upload_user_logs, the try: the post succeeds and _record_api_success is
\* called, or something raises and _record_api_failure is called
UploadPosts(t, ok) ==
    /\ upc[t] = "post"
    /\ IF ok
       THEN /\ circuit_breaker' = AfterSuccess(circuit_breaker)
            /\ uploaded' = uploaded \cup Entries(logs_batch[t])
            /\ logs_batch' = [logs_batch EXCEPT ![t] = <<>>]
            /\ UploadEnds(t, "sent")
       ELSE /\ circuit_breaker' = AfterFailure(circuit_breaker, now)
            /\ upc' = [upc EXCEPT ![t] = "put back"]
            /\ UNCHANGED <<uploaded, logs_batch, attempt, flush_result>>
    /\ UNCHANGED <<log_entries, offline_mode, logged, drained, flush_pending, now>>

\* _upload_user_logs, except branch: one round of the loop that puts the
\* entries back; after the last one the function returns
UploadPutsBack(t) ==
    /\ upc[t] = "put back"
    /\ IF logs_batch[t] # <<>>
       THEN /\ log_entries' = Requeued(log_entries, Head(logs_batch[t]))
            /\ logs_batch' = [logs_batch EXCEPT ![t] = Tail(@)]
            /\ UNCHANGED <<upc, attempt, flush_result>>
       ELSE /\ UploadEnds(t, "failed")
            /\ UNCHANGED <<log_entries, logs_batch>>
    /\ UNCHANGED <<offline_mode, logged, drained, uploaded, flush_pending>>
    /\ UNCHANGED <<circuit_breaker, now>>

UploadNext ==
    \/ QueueLogEntry /\ UNCHANGED uploadRest
    \/ FlushOffline /\ UNCHANGED uploadRest
    \/ \E t \in UploadThreads : UploadCalled(t) /\ UNCHANGED uploadRest
    \/ \E t \in UploadThreads : UploadChecks(t) /\ UNCHANGED uploadRest
    \/ \E t \in UploadThreads : UploadDrains(t) /\ UNCHANGED uploadRest
    \/ \E t \in UploadThreads : \E ok \in BOOLEAN : UploadPosts(t, ok) /\ UNCHANGED uploadRest
    \/ \E t \in UploadThreads : UploadPutsBack(t) /\ UNCHANGED uploadRest

InitUpload ==
    /\ UploadInit
    /\ BreakerIdle /\ CacheIdle /\ GetIdle /\ ValidateIdle /\ RateIdle /\ NotifyIdle /\ EvalIdle
    /\ LaterIdle
    /\ circuit_breaker \in {FreshBreaker, AfterFailure(FreshBreaker, 0)}
    /\ now = 0

SpecUpload == InitUpload /\ [][UploadNext]_vars

\* C14: the queue has a capacity that its length never exceeds.  Of the
\* capacities smaller than the number of entries logged the largest is taken,
\* MaxLogged - 1: a queue that outgrows it outgrows them all.
C14_QueueNeverOutgrowsCapacity ==
    Len(log_entries) <= MaxLogged - 1

\* The entries that have left the queue through another thread's attempt
TakenBy(t) == uploaded \cup UNION {Entries(logs_batch[u]) : u \in UploadThreads \ {t}}

C16_FlushSendsAllPending ==
    [][(flush_result # "True" /\ flush_result' = "True")
       => /\ flush_pending \subseteq uploaded'
          /\ flush_pending \cap Entries(log_entries') = {}]_vars

(***************************************************************************)
(* The change callback: _polling_worker with on_flag_change registered,    *)
(* beside refresh_flags                                                    *)
(***************************************************************************)

\* _polling_worker, the loop over new_flags.items(): the calls
\* on_flag_change(flag_name, old_value, new_flag.value), made for the flags
\* that old_flags lacks or holds with another value
ChangeEvents(old, new) ==
    {[name |-> k, old_value |-> DictGet(old, k).value, new_value |-> DictGet(new, k).value] :
        k \in {n \in DictKeys(new) :
                  n \notin DictKeys(old) \/ DictGet(old, n).value # DictGet(new, n).value}}

\* What the two steps below leave alone
notifyRest == <<breakerOnly, getVars, valVars, rateVars, uploadVars, evalVars, laterVars>>

\* _polling_worker: old_flags = dict(self.feature_flags), before the fetch
PollCopies ==
    /\ PollStart
    /\ old_flags' = feature_flags
    /\ notified' = {}
    /\ UNCHANGED notifyRest

\* _polling_worker: if new_flags: under the lock, the callbacks and the merge
PollNotifies ==
    /\ PollMerge
    /\ notified' = IF new_flags["polling"] # <<>>
                   THEN ChangeEvents(old_flags, new_flags["polling"])
                   ELSE {}
    /\ UNCHANGED old_flags
    /\ UNCHANGED notifyRest

NotifyNext ==
    \/ \E t \in CacheThreads : FetchBlocked(t) /\ UNCHANGED cacheRest
    \/ \E t \in CacheThreads : FetchSends(t) /\ UNCHANGED cacheRest
    \/ \E t \in CacheThreads, kind \in FetchKinds : FetchRaises(t, kind) /\ UNCHANGED cacheRest
    \/ \E t \in CacheThreads : FetchHttpError(t) /\ UNCHANGED cacheRest
    \/ \E t \in CacheThreads, data \in Dicts, env \in Environments : FetchOk(t, data, env) /\ UNCHANGED cacheRest
    \/ PollCopies
    \/ PollNotifies
    \/ PollExcept /\ UNCHANGED cacheRest
    \/ RefreshStart /\ UNCHANGED cacheRest
    \/ RefreshMerge /\ UNCHANGED cacheRest
    \/ RefreshExcept /\ UNCHANGED cacheRest

InitNotify == CacheInit /\ BreakerIdle /\ GetIdle /\ ValidateIdle /\ MoreIdle

SpecNotify == InitNotify /\ [][NotifyNext]_vars

\* C17: every call of the change callback made by a poll is for a flag whose
\* fetched value differs from the value the cache holds just before that
\* poll's merge, and passes that cached value as the old value.
C17_CallbackComparesWithCache ==
    [][(spc["polling"] = "fetched" /\ spc'["polling"] = "wait")
       => \A e \in notified' :
             /\ e.new_value # DictGet(feature_flags, e.name).value
             /\ e.old_value = DictGet(feature_flags, e.name).value]_vars

(***************************************************************************)
(* FeatureFlagsHQFlag.evaluate_for_user                                    *)
(***************************************************************************)

\* The segments a flag may list: of type string, active or not, compared
\* with "==" or "!=" to the value "x"
SegmentNames == {"s1", "s2"}
FlagSegments ==
    [name : SegmentNames, is_active : BOOLEAN, comparator : {"==", "!="}, value : {"x"}]

\* The flags that are evaluated: no segment, one, or two in declared order
EvalFlags ==
    [is_active : BOOLEAN,
     type : {"bool", "string"},
     value : {"true", "TRUE", "no"},
     segments : {<<>>} \cup {<<g>> : g \in FlagSegments}
                       \cup {<<g, h>> : g \in FlagSegments, h \in FlagSegments},
     percentage : {0, 50, 100}]

\* The segments argument: None, or a dict from segment names to "x" or "y"
CallerSegments ==
    {[given |-> FALSE, map |-> <<>>]}
    \cup {[given |-> TRUE, map |-> m] :
             m \in UNION {[names -> {"x", "y"}] : names \in SUBSET SegmentNames}}

\* The residues of the hash that the model tells apart
UserPercentages == {0, 49, 50, 99}

\* FeatureFlagsHQSegment.matches_segment for a segment of type string, what
\* it raises: re.search with the pattern "(" raises re.error, which is not
\* among the exceptions the function catches
SegmentRaises(segment) ==
    IF segment.is_active /\ segment.comparator = "regex" /\ segment.value = "("
    THEN "re.error" ELSE "none"

\* FeatureFlagsHQSegment.matches_segment for a segment of type string, what
\* it returns; the user's value is "x" or "y", so the pattern "x" is found in
\* "x" alone; a comparator that is not known gives False
MatchesSegment(segment, segment_value) ==
    /\ segment.is_active
    /\ IF segment.comparator = "==" THEN segment_value = segment.value
       ELSE IF segment.comparator = "!=" THEN segment_value # segment.value
       ELSE IF segment.comparator = "regex" THEN segment_value = segment.value
       ELSE FALSE

\* str(self.value).lower()
Lower(v) == IF v = "TRUE" THEN "true" ELSE v

\* _get_typed_default_value
TypedDefault(flag) ==
    IF flag.type = "bool" THEN "False" ELSE IF flag.type = "int" THEN "0" ELSE ""

\* _get_typed_value, what it raises: int(float("1e999")) is int(inf), an
\* OverflowError, which is not among the exceptions the function catches
ValueRaises(flag) ==
    IF flag.type = "int" /\ flag.value = "1e999" THEN "OverflowError" ELSE "none"

\* _get_typed_value, what it returns; float("abc") raises ValueError, which
\* is caught and answered with the typed default
TypedValue(flag) ==
    IF flag.type = "bool"
    THEN IF Lower(flag.value) \in {"true", "1", "yes", "on"} THEN "True" ELSE "False"
    ELSE IF flag.type = "int"
    THEN IF flag.value = "7" THEN "7" ELSE TypedDefault(flag)
    ELSE flag.value

\* A faulty loop, for comparison: every listed segment has to match
RECURSIVE SegmentLoopAll(_, _, _)
SegmentLoopAll(list, map, acc) ==
    IF list = <<>> THEN [acc EXCEPT !.pass = acc.evaluated = acc.matched]
    ELSE LET segment == Head(list)
             seen_now == [acc EXCEPT !.evaluated = Append(@, segment.name)]
         IN  IF segment.name \in DOMAIN map /\ SegmentRaises(segment) # "none"
             THEN [seen_now EXCEPT !.raised = SegmentRaises(segment)]
             ELSE IF segment.name \in DOMAIN map /\ MatchesSegment(segment, map[segment.name])
             THEN SegmentLoopAll(Tail(list), map,
                                 [seen_now EXCEPT !.matched = Append(@, segment.name)])
             ELSE SegmentLoopAll(Tail(list), map, seen_now)

\* evaluate_for_user, the loop over self.segments: each segment is entered in
\* segments_evaluated; the first one that the caller's map names and that
\* matches is entered in segments_matched and ends the loop; an exception
\* that matches_segment lets through ends it as well
RECURSIVE SegmentLoop(_, _, _)
SegmentLoop(list, map, acc) ==
    IF list = <<>> THEN acc
    ELSE LET segment == Head(list)
             seen_now == [acc EXCEPT !.evaluated = Append(@, segment.name)]
         IN  IF segment.name \in DOMAIN map /\ SegmentRaises(segment) # "none"
             THEN [seen_now EXCEPT !.raised = SegmentRaises(segment)]
             ELSE IF segment.name \in DOMAIN map /\ MatchesSegment(segment, map[segment.name])
             THEN [seen_now EXCEPT !.matched = Append(@, segment.name), !.pass = TRUE]
             ELSE SegmentLoop(Tail(list), map, seen_now)

\* A faulty comparison, for comparison: a user at the percentage qualifies
RolloutQualifiesInclusive(percentage, user_percentage) ==
    ~(percentage < 100 /\ user_percentage > percentage)

\* evaluate_for_user, rollout: below 100 the user's residue must be less than
\* the percentage
RolloutQualifies(percentage, user_percentage) ==
    ~(percentage < 100 /\ user_percentage >= percentage)

\* evaluate_for_user: the returned value and the evaluation context
EvaluateForUser(flag, segments, user_percentage) ==
    LET truthy == segments.given /\ DOMAIN segments.map # {}
        loop == IF flag.segments # <<>> /\ truthy
                THEN SegmentLoop(flag.segments, segments.map,
                                 [evaluated |-> <<>>, matched |-> <<>>, pass |-> FALSE,
                                  raised |-> "none"])
                ELSE [evaluated |-> <<>>, matched |-> <<>>, pass |-> flag.segments = <<>>,
                      raised |-> "none"]
        \* the reason set by the elif branch is overwritten two statements later
        reason_after_segments ==
            IF flag.segments # <<>> /\ ~truthy
            THEN "segments_required_but_not_provided" ELSE "unknown"
        ctx == [NoResult.context EXCEPT !.segments_evaluated = loop.evaluated,
                                        !.segments_matched = loop.matched,
                                        !.evaluation_reason = reason_after_segments]
    IN  IF ~flag.is_active
        THEN [value |-> TypedDefault(flag), done |-> TRUE, raised |-> "none",
              context |-> [NoResult.context EXCEPT !.default_value_used = TRUE,
                                                   !.evaluation_reason = "flag_inactive"]]
        ELSE IF loop.raised # "none"
        THEN [NoResult EXCEPT !.done = TRUE, !.raised = loop.raised]
        ELSE IF ~loop.pass
        THEN [value |-> TypedDefault(flag), done |-> TRUE, raised |-> "none",
              context |-> [ctx EXCEPT !.default_value_used = TRUE,
                                      !.evaluation_reason = "segments_not_matched"]]
        ELSE IF ~RolloutQualifies(flag.percentage, user_percentage)
        THEN [value |-> TypedDefault(flag), done |-> TRUE, raised |-> "none",
              context |-> [ctx EXCEPT !.default_value_used = TRUE,
                                      !.evaluation_reason = "rollout_not_qualified"]]
        ELSE IF ValueRaises(flag) # "none"
        THEN [NoResult EXCEPT !.done = TRUE, !.raised = ValueRaises(flag)]
        ELSE [value |-> TypedValue(flag), done |-> TRUE, raised |-> "none",
              context |-> [ctx EXCEPT !.rollout_qualified = TRUE,
                                      !.evaluation_reason =
                                          IF flag.percentage < 100 THEN "rollout_qualified"
                                          ELSE "full_rollout"]]

\* A faulty residue, for comparison: drawn anew in every call
HashResidueFresh(residue, draw) == draw

\* evaluate_for_user: user_percentage is computed from the flag's name, the
\* user id and the flag's version, and from nothing that differs between two
\* calls (draw)
HashResidue(residue, draw) == residue

\* flag.evaluate_for_user(user_id, segments) is called, a first and a second
\* time
Evaluates(draw) ==
    /\ ~e_previous.done
    /\ e_previous' = e_result
    /\ e_result' = EvaluateForUser(e_flag, e_segments, HashResidue(e_user_percentage, draw))
    /\ UNCHANGED <<e_flag, e_segments, e_user_percentage>>
    /\ UNCHANGED <<cbVars, cacheVars, getVars, valVars, rateVars, uploadVars, notifyVars,
                   laterVars>>

InitEvaluate ==
    /\ e_flag \in EvalFlags
    /\ e_segments \in CallerSegments
    /\ e_user_percentage \in UserPercentages
    /\ e_result = NoResult
    /\ e_previous = NoResult
    /\ BreakerIdle /\ CacheIdle /\ GetIdle /\ ValidateIdle /\ RateIdle /\ UploadIdle /\ NotifyIdle
    /\ LaterIdle
    /\ circuit_breaker = FreshBreaker
    /\ now = 0

EvaluateNext == \E draw \in UserPercentages : Evaluates(draw)

SpecEvaluate == InitEvaluate /\ [][EvaluateNext]_vars

\* Flags with malformed parts: a segment with a pattern that does not compile,
\* with a pattern that does, or with a comparator that does not exist; an int
\* flag whose value is a number, is no number, or is out of range
MalformedFlags ==
    [is_active : {TRUE},
     type : {"int"},
     value : {"7", "abc", "1e999"},
     segments : {<<>>} \cup {<<g>> : g \in [name : {"s1"}, is_active : {TRUE},
                                             comparator : {"regex", "unknown"},
                                             value : {"x", "("}]},
     percentage : {100}]

InitMalformed ==
    /\ e_flag \in MalformedFlags
    /\ e_segments \in CallerSegments
    /\ e_user_percentage \in UserPercentages
    /\ e_result = NoResult
    /\ e_previous = NoResult
    /\ BreakerIdle /\ CacheIdle /\ GetIdle /\ ValidateIdle /\ RateIdle /\ UploadIdle /\ NotifyIdle
    /\ LaterIdle
    /\ circuit_breaker = FreshBreaker
    /\ now = 0

SpecMalformed == InitMalformed /\ [][EvaluateNext]_vars

C22_EvaluateNeverRaises ==
    e_result.raised = "none"

\* C18: an active flag that lists segments, evaluated without a segment map,
\* gives the typed default with default_value_used and the reason
\* 'segments_required_but_not_provided'.
C18_ReasonSegmentsRequired ==
    (e_result.done /\ e_flag.is_active /\ e_flag.segments # <<>> /\ ~e_segments.given)
    => /\ e_result.value = TypedDefault(e_flag)
       /\ e_result.context.default_value_used
       /\ e_result.context.evaluation_reason = "segments_required_but_not_provided"

\* The listed segments that the caller's map names and whose value matches
Matching == {i \in DOMAIN e_flag.segments :
                /\ e_flag.segments[i].name \in DOMAIN e_segments.map
                /\ MatchesSegment(e_flag.segments[i], e_segments.map[e_flag.segments[i].name])}

Merges(t) == spc[t] = "fetched" /\ spc'[t] # "fetched"

\* C4: a merge by the polling worker or by refresh_flags only overlays the
\* fetched entries: every flag cached before the merge is cached after it, with
\* its previous definition when the fetched response does not name it; no other
\* step changes the cache.
C4_MergeOnlyOverlays ==
    [][/\ \A t \in CacheThreads : Merges(t) =>
            \A n \in DictKeys(feature_flags) :
                /\ n \in DictKeys(feature_flags')
                /\ n \notin DictKeys(new_flags[t]) =>
                       DictGet(feature_flags', n) = DictGet(feature_flags, n)
       /\ (\A t \in CacheThreads : ~Merges(t)) => feature_flags' = feature_flags]_vars

\* C4 witness: the polling worker has merged a response that names some flag
\* and not another flag, which is cached.
C4_Witness ==
    /\ spc["polling"] = "wait"
    /\ kept # {}
    /\ kept \subseteq DictKeys(feature_flags)
    /\ DictKeys(feature_flags) # kept

\* The ways a poll's fetch fails with a call sent, and all the ways it fails
OutboundFailures == {"unauthorized", "timeout", "connection_error", "http_error"}
PollFailures == OutboundFailures \cup {"blocked"}

C6_ReadsSeeOneSnapshot ==
    [][(spc["caller"] \in {"iterating", "read"} /\ spc'["caller"] = "idle")
       => /\ read_result' = "returned"
          /\ \E s \in seen : user_flags = DictFilter(s, iter.keys)]_vars

\* What the steps of SpecBreaker leave alone
breakerRest == <<cacheVars, getVars, valVars, moreVars>>

BreakerNext ==
    \/ Tick /\ UNCHANGED breakerRest
    \/ \E t \in BreakerThreads : CheckCircuitBreaker(t) /\ UNCHANGED breakerRest
    \/ \E t \in BreakerThreads : SetHalfOpen(t) /\ UNCHANGED breakerRest
    \/ \E t \in BreakerThreads : CallSucceeds(t) /\ UNCHANGED breakerRest
    \/ \E t \in BreakerThreads : CallFails(t) /\ UNCHANGED breakerRest
    \/ \E t \in BreakerThreads : RecordApiSuccess(t) /\ UNCHANGED breakerRest
    \/ \E t \in BreakerThreads : ResetFailureCount(t) /\ UNCHANGED breakerRest
    \/ \E t \in BreakerThreads : FailureCountRead(t) /\ UNCHANGED breakerRest
    \/ \E t \in BreakerThreads : FailureCountWrite(t) /\ UNCHANGED breakerRest
    \/ \E t \in BreakerThreads : FailureTimeWrite(t) /\ UNCHANGED breakerRest
    \/ \E t \in BreakerThreads : FailureTrip(t) /\ UNCHANGED breakerRest

InitBreaker == BreakerInit /\ CacheIdle /\ GetIdle /\ ValidateIdle /\ MoreIdle

SpecBreaker == InitBreaker /\ [][BreakerNext]_vars

InitCache == CacheInit /\ BreakerIdle /\ GetIdle /\ ValidateIdle /\ MoreIdle

SpecCache == InitCache /\ [][CacheNext]_vars

Init == GetInit /\ BreakerIdle /\ ValidateIdle /\ MoreIdle

Next == GetNext

Spec == Init /\ [][Next]_vars

InitValidate ==
    /\ ValidateInit /\ BreakerIdle /\ CacheIdle /\ GetIdle /\ MoreIdle
    /\ circuit_breaker = FreshBreaker
    /\ now = 0

SpecValidate == InitValidate /\ [][GetValidates]_vars

(***************************************************************************)
(* Claims about the circuit breaker                                        *)
(***************************************************************************)

\* Thread t's _check_circuit_breaker answers yes in this step
Answered(t) == cbpc[t] # "calling" /\ cbpc'[t] = "calling"

\* The last failure_threshold reports were all failures, and no more than
\* recovery_timeout seconds have passed since the last of them
BlockedPeriod ==
    /\ consecutive >= failure_threshold
    /\ circuit_breaker.last_failure_time # None
    /\ now - circuit_breaker.last_failure_time <= recovery_timeout

\* C7: once failure_threshold consecutive failures have been reported, no check
\* is answered yes until more than recovery_timeout seconds have passed since
\* the last reported failure.
C7_OpenBlocksUntilTimeout ==
    [][\A t \in BreakerThreads : Answered(t) => ~BlockedPeriod]_vars

\* C8: the breaker goes from closed to open only on the report of a failure
\* that makes the last failure_threshold reported outcomes all failures.
C8_TripsOnConsecutiveFailures ==
    [][(circuit_breaker.state = "closed" /\ circuit_breaker'.state = "open")
       => consecutive' >= failure_threshold]_vars

\* C9: a check changes the state only from open to half-open, never while the
\* breaker is closed or half-open; and when the report of a success that found
\* the breaker half-open is complete, the breaker is closed with a failure
\* count of 0.
C9_HalfOpenTransitions ==
    [][\A t \in BreakerThreads :
          /\ (cbpc[t] \in {"idle", "set_half_open"} /\ cbpc'[t] = "calling"
              /\ circuit_breaker'.state # circuit_breaker.state)
             => (circuit_breaker.state = "open" /\ circuit_breaker'.state = "half-open")
          /\ (cbpc[t] = "reset_count" /\ cbpc'[t] = "idle")
             => (circuit_breaker'.state = "closed" /\ circuit_breaker'.failure_count = 0)]_vars

\* C10: while the breaker is half-open at most one call admitted in that state
\* is in flight.
C10_OneTrialCall ==
    Cardinality({t \in BreakerThreads : admitted[t] = "half-open"}) <= 1

(***************************************************************************)
(* Claims about get                                                        *)
(***************************************************************************)

\* C1: a caller of get never waits for a lock that it holds itself: recording
\* the access and updating the statistics does not block the calling thread.
C1_NeverWaitsForOwnLock ==
    \A t \in GetThreads : ~(gpc[t] = "waiting" /\ stats_lock = t)

\* C2: a get whose arguments pass the validation returns the flag's value or
\* default_value: no exception raised while looking up, evaluating or logging
\* reaches the caller.
C2_OnlyValidationRaises ==
    \A t \in GetThreads : gresult[t] \in {"none", "flag_value", "default_value", "typed_default"}

\* Characters below \x20
ControlChars == {"\n", "x01"}

\* '../' in s
HasTraversal(s) ==
    \E i \in 1..(Len(s) - 1) : s[i].ch = "." /\ s[i].n >= 2 /\ s[i + 1].ch = "/"

\* The arguments the validation is to reject, read on the stripped argument:
\* empty, longer than the bound, with a control character or a '../'
Rejectable(s, bound) ==
    \/ Strip(s) = <<>>
    \/ StrLen(Strip(s)) > bound
    \/ HasChar(Strip(s), ControlChars)
    \/ HasTraversal(Strip(s))

\* C3: get raises for a user id or flag key that is empty or whitespace, longer
\* than its bound, or holds a control character or a path traversal, and the
\* rejected call counts no request for the rate limit and queues no log.
C3_RejectsUnsafeArguments ==
    (/\ v_result \in {"raised", "accepted"}
     /\ \/ Rejectable(v_user_id, MAX_USER_ID_LENGTH)
        \/ Rejectable(v_flag_key, MAX_FLAG_KEY_LENGTH))
    => (v_result = "raised" /\ rate_limits = <<>> /\ user_access_logs = 0)

\* The next get call of User is refused: the bucket is less than a minute old
\* and counts more than 1000 requests
Refused ==
    /\ User \in DOMAIN rate_limits
    /\ now - rate_limits[User].last_time < rate_window
    /\ rate_limits[User].requests > rate_cap

\* C13: a get call that the rate limiter refuses returns default_value at once:
\* it does not go on to the cache lookup, and the telemetry queue, the access
\* count and the statistics lock are as before.
C13_RefusedCallTouchesNothing ==
    [][(calls' # calls /\ Refused)
       => /\ gpc' = gpc
          /\ \E t \in GetThreads :
                /\ gpc[t] = "idle"
                /\ gresult'[t] = "default_value"
                /\ \A u \in GetThreads \ {t} : gresult'[u] = gresult[u]
          /\ UNCHANGED <<feature_flags, user_access_logs, total_user_accesses, stats_lock>>]_vars

\* One call is still at the cache while another has been refused
C13_Witness ==
    /\ calls = 2
    /\ Refused
    /\ gpc["c1"] = "lookup"
    /\ gpc["c2"] = "idle" /\ gresult["c2"] = "default_value"
    /\ user_access_logs = 0 /\ total_user_accesses = 0

\* C23: a get call that has evaluated a cached flag returns what the
\* evaluation left: the flag's typed value if no default was used, else the
\* caller's default_value, or the type's default if that is None.
C23_ReturnsEvaluatedValue ==
    [][\A t \in GetThreads :
          (gin_try[t] /\ gpc[t] # "idle" /\ gpc'[t] = "idle")
          => gresult'[t] = gvalue[t]]_vars

(***************************************************************************)
(* The errors of a fetch, seen from refresh_flags and from the worker      *)
(***************************************************************************)

\* The exceptions _fetch_flags raises on status 401, a timeout and a
\* connection error
FetchErrors == {RaisedFor(kind) : kind \in FetchKinds}

\* C24: refresh_flags hands the authentication, network and timeout errors of
\* its fetch on to its caller: when it ends, the exception is still travelling.
C24_RefreshPropagatesErrors ==
    [][(spc["caller"] = "raised" /\ raised["caller"] \in FetchErrors
        /\ spc'["caller"] = "idle")
       => raised'["caller"] = raised["caller"]]_vars

(***************************************************************************)
(* The background workers and shutdown                                     *)
(***************************************************************************)

\* thread.join(timeout=10)
join_timeout == 10

\* The seconds that pass in one step of a join that waits
JoinStep == 5

\* The iterations of a worker that the model follows
MaxIterations == 2

\* _start_background_tasks: nothing in offline mode; else the polling thread,
\* and the upload thread if metrics are enabled
StartedSets ==
    {[w \in WorkerNames |-> FALSE],
     [w \in WorkerNames |-> w = "polling"],
     [w \in WorkerNames |-> TRUE]}

WorkersInit ==
    /\ stop_event = FALSE
    /\ started \in StartedSets
    /\ wpc = [w \in WorkerNames |-> IF started[w] THEN "wait" ELSE "none"]
    /\ w_raised = [w \in WorkerNames |-> "none"]
    /\ iterations = [w \in WorkerNames |-> 0]
    /\ sdpc = "idle"
    /\ join_index = 1
    /\ join_waited = 0
    /\ total_waited = 0

\* What an iteration can raise into the worker's try.  _polling_worker: what
\* _fetch_flags raises, a TypeError of a response whose 'environment' is no dict
\* included.  _log_upload_worker: _upload_user_logs catches what its request
\* raises, so what is left is an error before its try, such as a MemoryError
\* while the payload is built
IterationErrors(w) ==
    IF w = "polling" THEN FetchErrors \cup {"TypeError"} ELSE {"MemoryError"}

\* A faulty wait, for comparison: it reports the interval's end only
StopEventWaitTimesOut(flag) == FALSE

\* self._stop_event.wait(interval) returns the flag: True as soon as it is
\* set, False when the interval has passed without that
StopEventWait(flag) == flag

\* "while not self._stop_event.wait(...)": the wait returns; the loop ends or
\* an iteration begins
WaitReturns(w) ==
    /\ wpc[w] = "wait"
    /\ IF StopEventWait(stop_event)
       THEN /\ wpc' = [wpc EXCEPT ![w] = "exited"]
            /\ UNCHANGED iterations
       ELSE /\ iterations[w] < MaxIterations
            /\ wpc' = [wpc EXCEPT ![w] = "try"]
            /\ iterations' = [iterations EXCEPT ![w] = @ + 1]
    /\ UNCHANGED <<stop_event, started, w_raised, sdpc, join_index, join_waited,
                   total_waited>>

\* The try block of the iteration ends without an exception
IterationReturns(w) ==
    /\ wpc[w] = "try"
    /\ wpc' = [wpc EXCEPT ![w] = "wait"]
    /\ UNCHANGED <<stop_event, started, w_raised, iterations, sdpc, join_index,
                   join_waited, total_waited>>

\* The try block of the iteration raises
IterationRaises(w, e) ==
    /\ wpc[w] = "try"
    /\ wpc' = [wpc EXCEPT ![w] = "raised"]
    /\ w_raised' = [w_raised EXCEPT ![w] = e]
    /\ UNCHANGED <<stop_event, started, iterations, sdpc, join_index, join_waited,
                   total_waited>>

\* except Exception as e: logger.error(...); an exception that is not caught
\* ends the thread
WorkerExcept(w) ==
    /\ wpc[w] = "raised"
    /\ wpc' = [wpc EXCEPT ![w] = IF WorkerCatches(w_raised[w]) THEN "wait" ELSE "dead"]
    /\ UNCHANGED <<stop_event, started, w_raised, iterations, sdpc, join_index,
                   join_waited, total_waited>>

\* shutdown: self._stop_event.set()
ShutdownSets ==
    /\ sdpc = "idle"
    /\ stop_event' = TRUE
    /\ sdpc' = "upload"
    /\ UNCHANGED <<started, wpc, w_raised, iterations, join_index, join_waited,
                   total_waited>>

\* shutdown: the final _upload_user_logs, in a try of its own, if there is one
ShutdownUploads ==
    /\ sdpc = "upload"
    /\ sdpc' = "join"
    /\ UNCHANGED <<stop_event, started, wpc, w_raised, iterations, join_index,
                   join_waited, total_waited>>

\* thread and thread.is_alive()
IsAlive(w) == started[w] /\ wpc[w] \notin {"exited", "dead"}

Min(a, b) == IF a < b THEN a ELSE b

\* shutdown: thread.join(timeout=10) waits while the thread is alive and the
\* timeout has not passed
JoinWaits ==
    /\ sdpc = "join"
    /\ join_index <= Len(Workers)
    /\ IsAlive(Workers[join_index])
    /\ join_waited < join_timeout
    /\ join_waited' = Min(join_timeout, join_waited + JoinStep)
    /\ total_waited' = total_waited + (join_waited' - join_waited)
    /\ UNCHANGED <<stop_event, started, wpc, w_raised, iterations, sdpc, join_index>>

\* shutdown: the thread is None or not alive, or its join returns; the loop
\* goes on to the next thread
JoinReturns ==
    /\ sdpc = "join"
    /\ join_index <= Len(Workers)
    /\ ~IsAlive(Workers[join_index]) \/ join_waited >= join_timeout
    /\ join_index' = join_index + 1
    /\ join_waited' = 0
    /\ UNCHANGED <<stop_event, started, wpc, w_raised, iterations, sdpc, total_waited>>

\* shutdown: self.session.close(), in a try of its own; return
ShutdownCloses ==
    /\ sdpc = "join"
    /\ join_index > Len(Workers)
    /\ sdpc' = "done"
    /\ UNCHANGED <<stop_event, started, wpc, w_raised, iterations, join_index,
                   join_waited, total_waited>>

\* What the steps of the workers leave alone
workersRest == <<cbVars, cacheVars, getVars, valVars, rateVars, uploadVars, notifyVars,
                 evalVars, statsVars, parseVars, lastVars>>

WorkersNext ==
    \/ \E w \in WorkerNames : WaitReturns(w) /\ UNCHANGED workersRest
    \/ \E w \in WorkerNames : IterationReturns(w) /\ UNCHANGED workersRest
    \/ \E w \in WorkerNames : \E e \in IterationErrors(w) :
          IterationRaises(w, e) /\ UNCHANGED workersRest
    \/ \E w \in WorkerNames : WorkerExcept(w) /\ UNCHANGED workersRest
    \/ ShutdownSets /\ UNCHANGED workersRest
    \/ ShutdownUploads /\ UNCHANGED workersRest
    \/ JoinWaits /\ UNCHANGED workersRest
    \/ JoinReturns /\ UNCHANGED workersRest
    \/ ShutdownCloses /\ UNCHANGED workersRest

InitWorkers ==
    /\ WorkersInit
    /\ BreakerIdle /\ CacheIdle /\ GetIdle /\ ValidateIdle
    /\ RateIdle /\ UploadIdle /\ NotifyIdle /\ EvalIdle /\ StatsIdle /\ ParseIdle
    /\ LastIdle
    /\ circuit_breaker = FreshBreaker
    /\ now = 0

SpecWorkers == InitWorkers /\ [][WorkersNext]_vars

\* The threads are scheduled, an iteration ends (its requests have timeouts),
\* and a shutdown that has begun goes on; nobody has to call shutdown
WorkersFairness ==
    /\ \A w \in WorkerNames :
          /\ WF_workerVars(WaitReturns(w))
          /\ WF_workerVars(IterationReturns(w) \/ \E e \in IterationErrors(w) : IterationRaises(w, e))
          /\ WF_workerVars(WorkerExcept(w))
    /\ WF_workerVars(ShutdownUploads)
    /\ WF_workerVars(JoinWaits)
    /\ WF_workerVars(JoinReturns)
    /\ WF_workerVars(ShutdownCloses)

SpecWorkersFair == SpecWorkers /\ WorkersFairness

\* C25: no exception raised in an iteration ends a worker's loop: a loop is
\* never ended by an exception, and it ends only once the stop event is set.
C25_ExceptionsNeverEndWorkers ==
    \A w \in WorkerNames :
       /\ wpc[w] # "dead"
       /\ wpc[w] = "exited" => stop_event

\* Each worker has begun an iteration after one of its iterations raised
C25_Witness ==
    \A w \in WorkerNames : w_raised[w] # "none" /\ wpc[w] = "try"

MAX_UNIQUE_USERS_TRACKED == 10000
MAX_UNIQUE_FLAGS_TRACKED == 1000

\* if self.stats['total_user_accesses'] % 1000 == 0: self._cleanup_old_stats()
cleanup_every == 1000

\* The get calls that the model follows
MaxGets == 4

\* set(list(tracked)[-limit:]) if len(tracked) > limit
Trimmed(size, limit) == IF size > limit THEN limit ELSE size

\* _cleanup_old_stats, if get calls it
AfterCleanup(total, size, limit) ==
    IF total % cleanup_every = 0 THEN Trimmed(size, limit) ELSE size

\* A new client; or one after 999 calls with a flag key of its own each, after
\* 9999 calls with a user of its own each, or after 1999 calls of one user with
\* 1000 flag keys
StatsStarts ==
    {[total |-> 0, users |-> 0, flags |-> 0],
     [total |-> MAX_UNIQUE_FLAGS_TRACKED - 1, users |-> 1,
      flags |-> MAX_UNIQUE_FLAGS_TRACKED - 1],
     [total |-> MAX_UNIQUE_USERS_TRACKED - 1, users |-> MAX_UNIQUE_USERS_TRACKED - 1,
      flags |-> 1],
     [total |-> 2 * cleanup_every - 1, users |-> 1, flags |-> MAX_UNIQUE_FLAGS_TRACKED]}

\* One get call with metrics enabled that passes validation and the rate
\* limit and whose evaluation_time_ms is 0: the periodic cleanup, then
\* _log_user_access adds the user and the flag key
StatsGet(new_user, new_flag) ==
    /\ st_gets < MaxGets
    /\ st_gets' = st_gets + 1
    /\ total_user_accesses' = total_user_accesses + 1
    /\ unique_users' =
          AfterCleanup(total_user_accesses, unique_users, MAX_UNIQUE_USERS_TRACKED)
          + (IF new_user THEN 1 ELSE 0)
    /\ unique_flags_accessed' =
          AfterCleanup(total_user_accesses, unique_flags_accessed, MAX_UNIQUE_FLAGS_TRACKED)
          + (IF new_flag THEN 1 ELSE 0)
    /\ UNCHANGED <<gpc, gkey, gtime, gin_try, gvalue, gresult, stats_lock, user_access_logs,
                   rate_limits, enable_metrics, calls>>
    /\ UNCHANGED <<cbVars, cacheVars, valVars, rateVars, uploadVars, notifyVars, evalVars,
                   workerVars, parseVars, lastVars>>

StatsNext == \E new_user, new_flag \in BOOLEAN : StatsGet(new_user, new_flag)

InitStats ==
    /\ \E s \in StatsStarts :
          /\ total_user_accesses = s.total
          /\ unique_users = s.users
          /\ unique_flags_accessed = s.flags
    /\ st_gets = 0
    /\ BreakerIdle /\ CacheIdle /\ ValidateIdle
    /\ RateIdle /\ UploadIdle /\ NotifyIdle /\ EvalIdle /\ WorkerIdle /\ ParseIdle
    /\ LastIdle
    /\ circuit_breaker = FreshBreaker
    /\ now = 0
    /\ gpc = [t \in GetThreads |-> "idle"]
    /\ gkey = [t \in GetThreads |-> "none"]
    /\ gtime = [t \in GetThreads |-> 0]
    /\ gin_try = [t \in GetThreads |-> FALSE]
    /\ gvalue = [t \in GetThreads |-> "none"]
    /\ gresult = [t \in GetThreads |-> "none"]
    /\ stats_lock = "free"
    /\ user_access_logs = 0
    /\ rate_limits = <<>>
    /\ enable_metrics = TRUE
    /\ calls = 0

SpecStats == InitStats /\ [][StatsNext]_vars

\* C27: after any sequence of get calls the statistics track no more than
\* MAX_UNIQUE_USERS_TRACKED users and MAX_UNIQUE_FLAGS_TRACKED flags.
C27_TrackingStaysBounded ==
    /\ unique_users <= MAX_UNIQUE_USERS_TRACKED
    /\ unique_flags_accessed <= MAX_UNIQUE_FLAGS_TRACKED

(***************************************************************************)
(* The flag objects of a fetch response                                    *)
(***************************************************************************)

\* The flag objects of the model: a dict or a string; a dict has 'name' and
\* 'type', has 'value' or not, and has no 'rollout', one with 'percentage' and
\* 'sticky', or one with a key that FeatureFlagsHQRollout does not know
FlagObjects ==
    [shape : {"dict"}, name : FlagNames, has_value : BOOLEAN,
     rollout : {"absent", "known_keys", "unknown_key"}]
    \cup [shape : {"str"}, name : {"f1"}, has_value : {FALSE}, rollout : {"absent"}]

\* The flag objects of a response that the model follows
MaxFlagObjects == 2

Responses == UNION {[1..n -> FlagObjects] : n \in 0..MaxFlagObjects}

\* FeatureFlagsHQFlag.from_dict: data.get('segments') first, then
\* FeatureFlagsHQRollout(**rollout_data), then data['name'], data['type'],
\* data['value'], whose KeyError becomes a FeatureFlagsHQConfigError
FromDict(flag_data) ==
    IF flag_data.shape # "dict" THEN "AttributeError"
    ELSE IF flag_data.rollout = "unknown_key" THEN "TypeError"
    ELSE IF ~flag_data.has_value THEN "FeatureFlagsHQConfigError"
    ELSE "none"

\* except FeatureFlagsHQConfigError: log the error; continue
Skipped(e) == e = "FeatureFlagsHQConfigError"

\* for flag_data in response_data['data']: the flags parsed, and the exception
\* that ended the loop
RECURSIVE ParseFlags(_, _)
ParseFlags(data, acc) ==
    IF data = <<>> THEN [flags |-> acc, raised |-> "none"]
    ELSE LET e == FromDict(Head(data))
         IN  IF e = "none" THEN ParseFlags(Tail(data), acc \cup {Head(data).name})
             ELSE IF Skipped(e) THEN ParseFlags(Tail(data), acc)
             ELSE [flags |-> {}, raised |-> e]

\* _fetch_flags goes through the 'data' of a good response
FetchParses ==
    /\ ~parsed
    /\ parsed' = TRUE
    /\ flags' = ParseFlags(response_data, {}).flags
    /\ parse_raised' = ParseFlags(response_data, {}).raised
    /\ UNCHANGED response_data
    /\ UNCHANGED <<cbVars, cacheVars, getVars, valVars, rateVars, uploadVars, notifyVars,
                   evalVars, workerVars, statsVars, lastVars>>

InitParse ==
    /\ response_data \in Responses
    /\ flags = {}
    /\ parse_raised = "none"
    /\ parsed = FALSE
    /\ BreakerIdle /\ CacheIdle /\ GetIdle /\ ValidateIdle
    /\ RateIdle /\ UploadIdle /\ NotifyIdle /\ EvalIdle /\ WorkerIdle /\ StatsIdle
    /\ LastIdle
    /\ circuit_breaker = FreshBreaker
    /\ now = 0

SpecParse == InitParse /\ [][FetchParses]_vars

\* A flag object with the fields a flag needs and nothing FeatureFlagsHQFlag
\* cannot take
WellFormed(flag_data) ==
    /\ flag_data.shape = "dict"
    /\ flag_data.has_value
    /\ flag_data.rollout # "unknown_key"

\* C28: a malformed flag object of a response is skipped on its own: the fetch
\* raises nothing and returns the well-formed flag objects of the response.
C28_MalformedFlagsAreSkipped ==
    parsed =>
       /\ parse_raised = "none"
       /\ flags = {response_data[i].name :
                     i \in {j \in DOMAIN response_data : WellFormed(response_data[j])}}

(***************************************************************************)
(* get_user_flags as a whole                                               *)
(***************************************************************************)

\* The keys get_user_flags has an entry for so far
UserFlagKeys == {user_flags[i].name : i \in DOMAIN user_flags}

\* C29: a call of get_user_flags returns, with one entry for every flag that
\* was cached when it was called or became so during the call, or for every
\* such flag whose key is a valid member of flag_keys.
C29_UserFlagsCoverTheCache ==
    [][(spc["caller"] = "iterating" /\ spc'["caller"] = "idle")
       => /\ read_result' = "returned"
          /\ \E s \in seen : UserFlagKeys = DictKeys(s) \cap iter.keys]_vars

(***************************************************************************)
(* A failure reported while the breaker is half-open                       *)
(***************************************************************************)

\* C30: a failure whose report finds the breaker half-open returns it to
\* open with last_failure_time set, so that the next trial call has to wait
\* for a further recovery_timeout.
C30_HalfOpenFailureReopens ==
    [][\A t \in BreakerThreads :
          (cbpc[t] = "failure_trip" /\ cbpc'[t] = "idle"
           /\ circuit_breaker.state = "half-open")
          => /\ circuit_breaker'.state = "open"
             /\ circuit_breaker'.last_failure_time # None]_vars

(***************************************************************************)
(* The breaker under concurrent reports                                    *)
(***************************************************************************)

\* C31: the breaker record is mutated atomically: no reported failure is lost
\* from the failure count, i.e. the count a report stores is one more than the
\* count it replaces.
C31_NoFailureIsLost ==
    [][\A t \in BreakerThreads :
          (cbpc[t] = "failure_write" /\ cbpc'[t] = "failure_time")
          => circuit_breaker'.failure_count = circuit_breaker.failure_count + 1]_vars

(***************************************************************************)
(* _rate_limit_check called by several threads at once                     *)
(*                                                                         *)
(* One user, the caller threads of get, statement by statement; the time   *)
(* stands still, so that every entry stays inside its minute.              *)
(***************************************************************************)

\* The calls of _rate_limit_check that the model follows
MaxLimitCalls == 4

\* request_count of the user's entry, 0 without one
Requests(limits) == IF User \in DOMAIN limits THEN limits[User].requests ELSE 0

LimitInit ==
    /\ rlpc = [t \in GetThreads |-> "idle"]
    /\ rl_kept = [t \in GetThreads |-> <<>>]
    /\ rl_count = [t \in GetThreads |-> 0]
    /\ rl_started = 0
    /\ rl_granted = 0
    /\ rate_limits \in {<<>>, (User :> [requests |-> rate_cap - 1, last_time |-> 0])}

\* The dict comprehension over self._rate_limits.items() builds a new dict
LimitBuilds(t) ==
    /\ rlpc[t] = "idle"
    /\ rl_started < MaxLimitCalls
    /\ rl_started' = rl_started + 1
    /\ rl_kept' = [rl_kept EXCEPT ![t] = RateLimitKept(rate_limits, now)]
    /\ rlpc' = [rlpc EXCEPT ![t] = "store"]
    /\ UNCHANGED <<rate_limits, rl_count, rl_granted>>

\* self._rate_limits = <the new dict>
LimitStores(t) ==
    /\ rlpc[t] = "store"
    /\ rate_limits' = rl_kept[t]
    /\ rl_kept' = [rl_kept EXCEPT ![t] = <<>>]
    /\ rlpc' = [rlpc EXCEPT ![t] = "read"]
    /\ UNCHANGED <<rl_count, rl_started, rl_granted>>

\* if user_id in self._rate_limits: request_count, last_request_time = ...;
\* inside the minute a count above the cap returns False; without an entry, or
\* outside the minute, the count starts again
LimitReads(t) ==
    /\ rlpc[t] = "read"
    /\ IF User \in DOMAIN rate_limits /\ now - rate_limits[User].last_time < rate_window
       THEN IF rate_limits[User].requests > rate_cap
            THEN /\ rlpc' = [rlpc EXCEPT ![t] = "idle"]
                 /\ UNCHANGED rl_count
            ELSE /\ rlpc' = [rlpc EXCEPT ![t] = "write"]
                 /\ rl_count' = [rl_count EXCEPT ![t] = rate_limits[User].requests]
       ELSE /\ rlpc' = [rlpc EXCEPT ![t] = "write"]
            /\ rl_count' = [rl_count EXCEPT ![t] = 0]
    /\ UNCHANGED <<rate_limits, rl_kept, rl_started, rl_granted>>

\* self._rate_limits[user_id] = (request_count + 1, current_time); return True
LimitWrites(t) ==
    /\ rlpc[t] = "write"
    /\ rate_limits' = [u \in DOMAIN rate_limits \cup {User} |->
                          IF u = User THEN [requests |-> rl_count[t] + 1, last_time |-> now]
                          ELSE rate_limits[u]]
    /\ rl_granted' = rl_granted + 1
    /\ rl_count' = [rl_count EXCEPT ![t] = 0]
    /\ rlpc' = [rlpc EXCEPT ![t] = "idle"]
    /\ UNCHANGED <<rl_kept, rl_started>>

\* What the steps of the limiter leave alone
limitRest == <<cbVars, cacheVars, valVars, getButLimits, rateVars, uploadVars, notifyVars,
               evalVars, workerVars, statsVars, parseVars, shutVars, outcomeVars>>

LimitNext ==
    \/ \E t \in GetThreads : LimitBuilds(t) /\ UNCHANGED limitRest
    \/ \E t \in GetThreads : LimitStores(t) /\ UNCHANGED limitRest
    \/ \E t \in GetThreads : LimitReads(t) /\ UNCHANGED limitRest
    \/ \E t \in GetThreads : LimitWrites(t) /\ UNCHANGED limitRest

InitLimit ==
    /\ LimitInit
    /\ BreakerIdle /\ CacheIdle /\ ValidateIdle
    /\ RateIdle /\ UploadIdle /\ NotifyIdle /\ EvalIdle
    /\ WorkerIdle /\ StatsIdle /\ ParseIdle /\ ShutIdle /\ OutcomeIdle
    /\ circuit_breaker = FreshBreaker
    /\ now = 0
    /\ gpc = [t \in GetThreads |-> "idle"]
    /\ gkey = [t \in GetThreads |-> "none"]
    /\ gtime = [t \in GetThreads |-> 0]
    /\ gin_try = [t \in GetThreads |-> FALSE]
    /\ gvalue = [t \in GetThreads |-> "none"]
    /\ gresult = [t \in GetThreads |-> "none"]
    /\ stats_lock = "free"
    /\ user_access_logs = 0
    /\ total_user_accesses = 0
    /\ enable_metrics = TRUE
    /\ calls = 0

SpecLimit == InitLimit /\ [][LimitNext]_vars

\* C32: the rate-limiter map is guarded by a lock: the dict a call stores in
\* place of the map holds every bucket the map holds in that minute, and the
\* count a call stores is one more than the count it replaces.
C32_NoIncrementIsLost ==
    [][\A t \in GetThreads :
          /\ (rlpc[t] = "store" /\ rlpc'[t] = "read")
             => rate_limits' = RateLimitKept(rate_limits, now)
          /\ (rlpc[t] = "write" /\ rlpc'[t] = "idle")
             => Requests(rate_limits') = Requests(rate_limits) + 1]_vars

(***************************************************************************)
(* What one upload attempt takes from the queue                            *)
(***************************************************************************)

\* C33: an upload attempt takes at most max_logs_batch entries, each from the
\* head of the queue; a successful post discards exactly the entries of its
\* batch and leaves the queue as it is.
C33_AttemptTakesOneBatch ==
    [][\A t \in UploadThreads :
          /\ Len(logs_batch'[t]) <= max_logs_batch
          /\ (upc[t] = "drain" /\ logs_batch'[t] # logs_batch[t])
             => /\ log_entries # <<>>
                /\ logs_batch'[t] = Append(logs_batch[t], Head(log_entries))
                /\ log_entries' = Tail(log_entries)
          /\ (upc[t] = "post" /\ upc'[t] = "idle")
             => /\ uploaded' = uploaded \cup Entries(logs_batch[t])
                /\ log_entries' = log_entries]_vars

\* A full batch has been sent and the entry behind it is still queued
C33_Witness ==
    /\ attempt["log_upload"] = "sent"
    /\ Cardinality(uploaded) = max_logs_batch
    /\ log_entries # <<>>
    /\ Entries(log_entries) \cap uploaded = {}

(***************************************************************************)
(* Uploads and fetches in front of an open breaker                         *)
(*                                                                         *)
(* The upload worker and the polling worker, each call of the breaker one  *)
(* step; the breaker is new, or open since time 0, and the time is 0 or    *)
(* past the recovery timeout.                                              *)
(***************************************************************************)

\* The breaker after failure_threshold failures at time 0
OpenedBreaker ==
    [state |-> "open", failure_count |-> failure_threshold, last_failure_time |-> 0]

\* The responses of a fetch here: no flag, or one
GuardData == {d \in Dicts : Len(d) <= 1}

GuardNext ==
    \/ QueueLogEntry /\ UNCHANGED uploadRest
    \/ UploadCalled("log_upload") /\ UNCHANGED uploadRest
    \/ UploadChecks("log_upload") /\ UNCHANGED uploadRest
    \/ UploadDrains("log_upload") /\ UNCHANGED uploadRest
    \/ \E ok \in BOOLEAN : UploadPosts("log_upload", ok) /\ UNCHANGED uploadRest
    \/ UploadPutsBack("log_upload") /\ UNCHANGED uploadRest
    \/ PollStart /\ UNCHANGED cacheRest
    \/ FetchBlocked("polling") /\ UNCHANGED cacheRest
    \/ FetchSends("polling") /\ UNCHANGED cacheRest
    \/ \E kind \in FetchKinds : FetchRaises("polling", kind) /\ UNCHANGED cacheRest
    \/ FetchHttpError("polling") /\ UNCHANGED cacheRest
    \/ \E data \in GuardData : FetchOk("polling", data, "absent") /\ UNCHANGED cacheRest
    \/ PollMerge /\ UNCHANGED cacheRest
    \/ PollExcept /\ UNCHANGED cacheRest

InitGuard ==
    /\ circuit_breaker \in {FreshBreaker, OpenedBreaker}
    /\ now \in {0, recovery_timeout + 1}
    /\ cbpc = [t \in BreakerThreads |-> "idle"]
    /\ cbread = [t \in BreakerThreads |-> 0]
    /\ admitted = [t \in BreakerThreads |-> "none"]
    /\ consecutive = circuit_breaker.failure_count
    /\ CacheIdle /\ GetIdle /\ ValidateIdle /\ MoreIdle

SpecGuard == InitGuard /\ [][GuardNext]_vars

\* The breaker is open and the recovery timeout has not elapsed
BreakerBlocks == circuit_breaker.state = "open" /\ ~RecoveryElapsed(circuit_breaker, now)

\* C34: in front of an open breaker whose recovery timeout has not elapsed, an
\* upload attempt ends at once, with queue, batch and sent entries as they
\* were, and a fetch returns no flags without a call; neither touches the
\* breaker.
C34_OpenBreakerBlocksCalls ==
    [][/\ \A t \in UploadThreads :
             (upc[t] = "check" /\ upc'[t] # "check" /\ BreakerBlocks)
             => /\ upc'[t] = "idle"
                /\ log_entries' = log_entries
                /\ logs_batch' = logs_batch
                /\ uploaded' = uploaded
                /\ circuit_breaker' = circuit_breaker
       /\ \A t \in CacheThreads :
             (spc[t] = "fetch" /\ spc'[t] # "fetch" /\ BreakerBlocks)
             => /\ spc'[t] = "fetched"
                /\ new_flags'[t] = <<>>
                /\ circuit_breaker' = circuit_breaker]_vars

\* An upload attempt with entries queued was refused and a fetch was blocked
C34_Witness ==
    /\ BreakerBlocks
    /\ attempt["log_upload"] = "refused"
    /\ log_entries # <<>>
    /\ outcome["polling"] = "blocked"

\* C35: a merge that changes the value of a cached flag, made by the polling
\* worker or by refresh_flags, delivers the change event (name, old value,
\* new value) of that flag to the callback.
C35_EveryChangeIsNotified ==
    [][\A k \in DictKeys(feature_flags) \cap DictKeys(feature_flags') :
          DictGet(feature_flags, k).value # DictGet(feature_flags', k).value
          => [name |-> k,
              old_value |-> DictGet(feature_flags, k).value,
              new_value |-> DictGet(feature_flags', k).value] \in notified']_vars

(***************************************************************************)
(* shutdown called once or again, and the destructor                       *)
(*                                                                         *)
(* The workers run as above; the calls of shutdown come one after another. *)
(***************************************************************************)

\* The shutdown calls the model follows
MaxShutdowns == 2

\* What the final _upload_user_logs and session.close() can raise
ShutdownErrors == {"MemoryError", "Exception"}

\* A faulty except clause, for comparison: it catches nothing
ShutdownCatchesNothing(e) == FALSE

\* The exceptions the "except Exception" clauses of shutdown and __del__ catch
ShutdownCatches(e) == TRUE

\* What leaves the call when a try of shutdown has not caught e: nothing if
\* the destructor made the call and its own try catches e
Escapes(e) == IF deleted /\ ShutdownCatches(e) THEN "none" ELSE e

\* What the steps of shutdown leave alone
shutRest == <<cbVars, cacheVars, getVars, valVars, rateVars, uploadVars, notifyVars,
              evalVars, statsVars, parseVars, limitVars, outcomeVars>>

\* shutdown begins: self._stop_event.set()
ShutdownBegins ==
    /\ stop_event' = TRUE
    /\ sdpc' = "upload"
    /\ join_index' = 1
    /\ join_waited' = 0
    /\ sd_log' = <<"set">>
    /\ sd_raised' = {}
    /\ sd_calls' = sd_calls + 1
    /\ UNCHANGED <<started, wpc, w_raised, iterations, total_waited, sd_escaped>>

\* shutdown() is called, for the first time or after an earlier call returned
ShutdownCalled ==
    /\ ~deleted
    /\ sdpc \in {"idle", "done"}
    /\ sd_calls < MaxShutdowns
    /\ ShutdownBegins
    /\ UNCHANGED deleted

\* __del__: shutdown() in a try, unless the stop event is set
DelRuns ==
    /\ ~deleted
    /\ sdpc \in {"idle", "done"}
    /\ deleted' = TRUE
    /\ IF stop_event
       THEN UNCHANGED <<workerVars, sd_log, sd_raised, sd_calls, sd_escaped>>
       ELSE ShutdownBegins

\* shutdown: "if self.enable_metrics and not self.offline_mode", which is when
\* the upload thread was started: _upload_user_logs() in a try of its own
FinalUpload(result) ==
    /\ sdpc = "upload"
    /\ IF ~started["log_upload"]
       THEN /\ result = "ok"
            /\ sdpc' = "join"
            /\ UNCHANGED <<sd_log, sd_raised, sd_escaped>>
       ELSE /\ sd_log' = Append(sd_log, "upload")
            /\ sd_raised' = IF result = "ok" THEN sd_raised ELSE sd_raised \cup {"upload"}
            /\ IF result = "ok" \/ ShutdownCatches(result)
               THEN sdpc' = "join" /\ UNCHANGED sd_escaped
               ELSE sdpc' = "done" /\ sd_escaped' = Escapes(result)
    /\ UNCHANGED <<stop_event, started, wpc, w_raised, iterations, join_index,
                   join_waited, total_waited, sd_calls, deleted>>

\* shutdown: self.session.close() in a try of its own; return
SessionCloses(result) ==
    /\ sdpc = "join"
    /\ join_index > Len(Workers)
    /\ sdpc' = "done"
    /\ sd_log' = Append(sd_log, "close")
    /\ sd_raised' = IF result = "ok" THEN sd_raised ELSE sd_raised \cup {"close"}
    /\ sd_escaped' = IF result = "ok" \/ ShutdownCatches(result)
                     THEN sd_escaped ELSE Escapes(result)
    /\ UNCHANGED <<stop_event, started, wpc, w_raised, iterations, join_index,
                   join_waited, total_waited, sd_calls, deleted>>

ShutdownNext ==
    \/ \E w \in WorkerNames : WaitReturns(w) /\ UNCHANGED workersRest
    \/ \E w \in WorkerNames : IterationReturns(w) /\ UNCHANGED workersRest
    \/ \E w \in WorkerNames : \E e \in IterationErrors(w) :
          IterationRaises(w, e) /\ UNCHANGED workersRest
    \/ \E w \in WorkerNames : WorkerExcept(w) /\ UNCHANGED workersRest
    \/ ShutdownCalled /\ UNCHANGED shutRest
    \/ DelRuns /\ UNCHANGED shutRest
    \/ \E result \in {"ok"} \cup ShutdownErrors : FinalUpload(result) /\ UNCHANGED shutRest
    \/ JoinWaits /\ UNCHANGED workersRest
    \/ JoinReturns /\ UNCHANGED workersRest
    \/ \E result \in {"ok"} \cup ShutdownErrors : SessionCloses(result) /\ UNCHANGED shutRest

InitShutdown ==
    /\ WorkersInit
    /\ BreakerIdle /\ CacheIdle /\ GetIdle /\ ValidateIdle
    /\ RateIdle /\ UploadIdle /\ NotifyIdle /\ EvalIdle /\ StatsIdle /\ ParseIdle
    /\ LimitIdle /\ ShutIdle /\ OutcomeIdle
    /\ circuit_breaker = FreshBreaker
    /\ now = 0

SpecShutdown == InitShutdown /\ [][ShutdownNext]_vars

\* The steps of a shutdown call that has returned
ShutdownOrder ==
    IF started["log_upload"] THEN <<"set", "upload", "close">> ELSE <<"set", "close">>

C37_VersionsNeverDecrease ==
    [][\A k \in DictKeys(feature_flags) \cap DictKeys(feature_flags') :
          /\ DictGet(feature_flags', k).version >= DictGet(feature_flags, k).version
          /\ DictGet(feature_flags', k) # DictGet(feature_flags, k)
             => DictGet(feature_flags', k).version > DictGet(feature_flags, k).version]_vars

(***************************************************************************)
(* What an admitted outbound call reports to the breaker                   *)
(*                                                                         *)
(* Each call is one step here: the check of the breaker, the request, and  *)
(* the _record_api_success and _record_api_failure calls made for it.      *)
(***************************************************************************)

\* The callers of an outbound request: _initial_fetch in the constructor,
\* _polling_worker, refresh_flags and _upload_user_logs
Paths == {"constructor", "polling", "refresh_flags", "upload"}

\* What a request can meet: the failures of FetchKinds, another HTTP error,
\* a good response, status 200 with a body that is no JSON, and status 200
\* with JSON whose 'environment' is no dict
CallResponses == FetchKinds \cup {"http_error", "ok", "bad_json", "bad_environment"}

\* _fetch_flags: the reports it makes.  _record_api_success follows
\* raise_for_status at once; response.json() raises
\* requests.exceptions.JSONDecodeError, a RequestException, which the last
\* except clause answers with _record_api_failure
FetchReports(response) ==
    CASE response \in FetchKinds \cup {"http_error"} -> <<"failure">>
      [] response = "bad_json" -> <<"success", "failure">>
      [] OTHER -> <<"success">>

\* _fetch_flags: the exception that leaves it
FetchLeaves(response) ==
    CASE response \in FetchKinds -> RaisedFor(response)
      [] response = "bad_environment" -> "TypeError"
      [] OTHER -> "none"

\* _initial_fetch: except Exception: _record_api_failure() unless the
\* exception is a FeatureFlagsHQError
InitialFetchReports(response) ==
    IF FetchLeaves(response) \in {"none"} \cup FetchErrors
    THEN FetchReports(response)
    ELSE Append(FetchReports(response), "failure")

\* _upload_user_logs: _record_api_success after raise_for_status, the body is
\* not read; except Exception: _record_api_failure
UploadReports(response) ==
    IF response \in FetchKinds \cup {"http_error"} THEN <<"failure">> ELSE <<"success">>

Reports(path, response) ==
    CASE path = "constructor" -> InitialFetchReports(response)
      [] path = "upload" -> UploadReports(response)
      [] OTHER -> FetchReports(response)

\* The breaker after the reports of a call, made in order
RECURSIVE AfterReports(_, _, _)
AfterReports(cb, reports, time) ==
    IF reports = <<>> THEN cb
    ELSE AfterReports(IF Head(reports) = "success" THEN AfterSuccess(cb)
                      ELSE AfterFailure(cb, time),
                      Tail(reports), time)

\* A call the breaker admits.  The constructor makes the first call
OutboundCall(path, response) ==
    /\ (path = "constructor") <=> (oc_path = "none")
    /\ CircuitBreakerAllows(circuit_breaker, now)
    /\ circuit_breaker' =
          AfterReports(AfterCheck(circuit_breaker, now), Reports(path, response), now)
    /\ oc_path' = path
    /\ oc_response' = response
    /\ oc_reports' = Reports(path, response)
    /\ UNCHANGED <<now, breakerOnly>>

outcomeRest == <<cacheVars, getVars, valVars, rateVars, uploadVars, notifyVars, evalVars,
                 workerVars, statsVars, parseVars, limitVars, shutVars>>

OutcomeNext ==
    \/ Tick /\ UNCHANGED <<outcomeVars, outcomeRest>>
    \/ \E path \in Paths, response \in CallResponses :
          OutboundCall(path, response) /\ UNCHANGED outcomeRest

InitOutcome ==
    /\ circuit_breaker = FreshBreaker
    /\ now = 0
    /\ BreakerIdle /\ CacheIdle /\ GetIdle /\ ValidateIdle /\ MoreIdle

SpecOutcome == InitOutcome /\ [][OutcomeNext]_vars

\* C38: every admitted outbound call reports one outcome to the breaker, a
\* success or a failure, and no second one.
C38_OneOutcomePerCall ==
    oc_path # "none" => Len(oc_reports) = 1

\* C39: the breaker record is consistent whenever no thread is inside one of
\* the breaker's methods: open or half-open, its failure count is at least the
\* threshold and its last_failure_time is set; closed, its failure count is
\* below the threshold.
C39_BreakerRecordIsConsistent ==
    (\A t \in BreakerThreads : cbpc[t] = "idle")
    => /\ circuit_breaker.state \in {"open", "half-open"}
          => /\ circuit_breaker.failure_count >= failure_threshold
             /\ circuit_breaker.last_failure_time # None
       /\ circuit_breaker.state = "closed"
          => circuit_breaker.failure_count < failure_threshold

\* The places that hold the entry made by the n-th call of _log_user_access:
\* positions of the queue and of the batches of the upload attempts
Holders(n) ==
    {<<"queue", i>> : i \in {j \in DOMAIN log_entries : log_entries[j].n = n}}
    \cup {h \in UploadThreads \X (1..max_logs_batch) :
             /\ h[2] \in DOMAIN logs_batch[h[1]]
             /\ logs_batch[h[1]][h[2]].n = n}

====
